---- MODULE Spec2Model ----
(***************************************************************************)
(* Verification model of twilog-search (7shi/twilog-search).               *)
(*                                                                         *)
(* Part 1: the JSON-RPC server skeleton, BaseEmbedServer.handle_client of  *)
(*         src/src/embed_server.py, serving the attributes of              *)
(*         TwilogServer (src/src/twilog_server.py).                        *)
(* Part 2: the chunk builder of TwilogServer.vector_search and the client  *)
(*         side concatenation of TwilogClient.vector_search.               *)
(***************************************************************************)
EXTENDS Integers, Sequences, FiniteSets, TLC

VARIABLES
    pc,             \* per connection: position of its handle_client task
    cur,            \* per connection: locals request_id, method of the iteration
    pending,        \* per connection: responses the iteration still has to send
    out,            \* per connection: frames written to the socket, in order
    inbox,          \* per connection: messages sent by the client, not yet read
    handled,        \* per connection: messages read, with the handler's outcome
    calls,          \* handler invocations made by the dispatcher
    nsent,          \* number of messages sent by all clients (request-id counter)
    listening,      \* the websockets listener is open
    init_completed, \* BaseEmbedServer.init_completed
    vs,             \* Part 2: one vector_search call and the client's join
    daemon,         \* Part 3: the daemon process, from its start to its exit
    eng             \* Part 4: one call into SearchEngine or its settings

vars == <<pc, cur, pending, out, inbox, handled, calls, nsent, listening,
          init_completed, vs, daemon, eng>>

---------------------------------------------------------------------------
(* Bounds of the model *)

NumConns == 2
MaxReqs == 2
MaxChunks == 2

(* Program constants *)

InvalidRequest == -32600
MethodNotFound == -32601
InternalError == -32603
chunk_size == 20000

Absent == "absent"      \* Python None / a key that is not in the dict

Conns == 1..NumConns

---------------------------------------------------------------------------
(* The attributes of the server object, as getattr(self, method, None)     *)
(* finds them on a TwilogServer instance.                                  *)

\* functions carrying @rpc_method in EmbedServer
EmbedServerMarked == {"get_status", "check_init", "stop_server", "embed_text"}

\* methods TwilogServer defines itself; none of them carries @rpc_method,
\* and its get_status overrides the marked one of EmbedServer
TwilogServerOwn ==
    {"vector_search", "search_similar", "get_user_stats", "get_database_stats",
     "search_posts_by_text", "get_status", "_load_embeddings", "_init_model"}

\* a marked handler of a further subclass whose result is an input of
\* handle_client: a plain value, an exception or {"streaming": chunks}.
\* No handler under src returns a streaming result; the streaming branch
\* of handle_client is exercised through this handler.
SubclassMarked == {"subclass_rpc"}

\* other attributes of the instance that carry no mark
PlainAttributes == {"_stop_server", "init_model", "start_server", "model_name"}

RpcMethods == (EmbedServerMarked \ TwilogServerOwn) \cup SubclassMarked

Attributes == EmbedServerMarked \cup TwilogServerOwn \cup SubclassMarked
                \cup PlainAttributes

IsRpcMethodUnmarked(method) == method \in Attributes

\* getattr(getattr(self, method, None), '_is_rpc_method', False)
IsRpcMethod(method) == method \in RpcMethods

\* the method surface of the documentation
SurfaceMethods ==
    {"get_status", "check_init", "stop_server", "embed_text", "vector_search",
     "search_similar", "search_posts_by_text", "get_user_stats",
     "get_database_stats", "get_user_list", "suggest_users"}

---------------------------------------------------------------------------
(* Messages a client may send.  params is the shape of the params member:  *)
(*   "none"       no params / {}            "text"    {"text": "abc"}      *)
(*   "empty_text" {"text": ""}              "query"   {"query": "hello"}   *)

Msg(j, meth, p) == [isdict |-> TRUE, jsonrpc |-> j, method |-> meth, params |-> p]

NonObject == [isdict |-> FALSE, jsonrpc |-> Absent, method |-> Absent, params |-> "none"]

\* the messages of the main specification
Requests ==
    {NonObject}
    \cup {Msg(j, "check_init", "none") : j \in {"1.0", Absent}}
    \cup {Msg("2.0", meth, "none") :
            meth \in {"stop_server", "subclass_rpc", "_stop_server", "init_model",
                      "no_such_method"}}
    \cup {Msg("2.0", "vector_search", "query")}
    \cup {Msg("2.0", "embed_text", p) : p \in {"text", "empty_text", "none"}}

\* one well-formed request for every method of the documented surface
SurfaceParams(meth) ==
    CASE meth \in {"vector_search", "search_similar"} -> "query"
      [] meth = "embed_text" -> "text"
      [] OTHER -> "none"

SurfaceRequests == {Msg("2.0", meth, SurfaceParams(meth)) : meth \in SurfaceMethods}

\* method_handler(**params): can params be bound to the handler's parameters
Binds(method, params) ==
    CASE method = "embed_text" -> params \in {"text", "empty_text"}
      [] OTHER -> params = "none"

---------------------------------------------------------------------------
(* Handler outcomes *)

NoCall == [kind |-> "nocall", n |-> 0, message |-> Absent]
Value == [kind |-> "value", n |-> 0, message |-> Absent]
Raise(e) == [kind |-> "raise", n |-> 0, message |-> e]
Streaming(n) == [kind |-> "streaming", n |-> n, message |-> Absent]

\* EmbedServer.embed_text
EmbedTextOutcome(params) ==
    IF ~init_completed THEN Raise("model not initialised")
    ELSE IF params = "empty_text" THEN Raise("text is required")
    ELSE Value

HandlerOutcomes(method, params) ==
    CASE method = "embed_text" -> {EmbedTextOutcome(params)}
      [] method = "subclass_rpc" ->
            {Value, Raise("handler failed")} \cup {Streaming(n) : n \in 0..MaxChunks}
      [] OTHER -> {Value}      \* check_init, stop_server

\* the dispatcher reaches `await method_handler(**params)` and the call binds
Called(m) ==
    /\ m.isdict
    /\ m.jsonrpc = "2.0"
    /\ m.method # Absent
    /\ IsRpcMethod(m.method)
    /\ Binds(m.method, m.params)

Outcomes(m) == IF Called(m) THEN HandlerOutcomes(m.method, m.params) ELSE {NoCall}

---------------------------------------------------------------------------
(* Responses.  An item is a response before its id is filled in.           *)

ErrorItem(req, code, message) ==
    [req |-> req, kind |-> "error", code |-> code, message |-> message,
     more |-> Absent, chunk |-> 0]

ResultItem(req) ==
    [req |-> req, kind |-> "result", code |-> 0, message |-> Absent,
     more |-> Absent, chunk |-> 0]

MoreFlagAlways(i, last) == "true"

\* "more": i < last
MoreFlag(i, last) == IF i < last THEN "true" ELSE "false"

\* one response of the streaming loop, i counted from 0 as enumerate does
ChunkItem(req, i, last) ==
    [req |-> req, kind |-> "result", code |-> 0, message |-> Absent,
     more |-> MoreFlag(i, last), chunk |-> i + 1]

HandlerErrorGeneric(req, e) == ErrorItem(req, InternalError, "Internal error")

\* except Exception as e: code -32603, message str(e)
HandlerError(req, e) == ErrorItem(req, InternalError, e)

\* the responses one iteration of handle_client sends for dict message m
\* when the handler, if it is called, ends with outcome o
Reply(m, o) ==
    IF m.jsonrpc # "2.0"
    THEN <<ErrorItem(m.id, InvalidRequest, "Invalid Request: missing jsonrpc field")>>
    ELSE IF m.method = Absent
    THEN <<HandlerError(m.id, "attribute name must be string")>>
    ELSE IF ~IsRpcMethod(m.method)
    THEN <<ErrorItem(m.id, MethodNotFound, "Method not found")>>
    ELSE IF ~Binds(m.method, m.params)
    THEN <<HandlerError(m.id, "TypeError")>>
    ELSE CASE o.kind = "raise" -> <<HandlerError(m.id, o.message)>>
           [] o.kind = "streaming" ->
                [k \in 1..o.n |-> ChunkItem(m.id, k - 1, o.n - 1)]
           [] OTHER -> <<ResultItem(m.id)>>

ResponseIdShared(c) == nsent

\* "id": request_id, the local of this connection's iteration
ResponseId(c) == cur[c].request_id

Frame(c, item) ==
    [id |-> ResponseId(c), req |-> item.req, kind |-> item.kind, code |-> item.code,
     message |-> item.message, more |-> item.more, chunk |-> item.chunk]

---------------------------------------------------------------------------
(* Part 1: actions *)

NoRequest == [request_id |-> 0, method |-> Absent, stop |-> FALSE]

VsIdle == [phase |-> "idle"]

\* Part 1 takes the process at `await self.server.serve_forever()`
DaemonServing == [pc |-> "serving"]

EngIdle == [op |-> "idle"]

Init ==
    /\ pc = [c \in Conns |-> "recv"]
    /\ cur = [c \in Conns |-> NoRequest]
    /\ pending = [c \in Conns |-> <<>>]
    /\ out = [c \in Conns |-> <<>>]
    /\ inbox = [c \in Conns |-> <<>>]
    /\ handled = [c \in Conns |-> <<>>]
    /\ calls = {}
    /\ nsent = 0
    /\ listening = TRUE
    /\ init_completed = TRUE
    /\ vs = VsIdle
    /\ daemon = DaemonServing
    /\ eng = EngIdle

\* a client writes one message; request ids are the client's running counter
ClientSend(c, m) ==
    /\ pc[c] \notin {"done", "unconnected"}
    /\ nsent < MaxReqs
    /\ nsent' = nsent + 1
    /\ inbox' = [inbox EXCEPT ![c] = Append(@, [id |-> nsent + 1] @@ m)]
    /\ UNCHANGED <<pc, cur, pending, out, handled, calls, listening,
                   init_completed, vs, daemon, eng>>

CanReceiveEarly(c) == pc[c] \in {"recv", "send"} /\ inbox[c] # <<>>

\* the task is at `async for message in websocket` and a message has arrived
CanReceive(c) == pc[c] = "recv" /\ inbox[c] # <<>>

\* one iteration of the loop of handle_client up to its first send
Recv(c) ==
    /\ CanReceive(c)
    /\ LET m == Head(inbox[c])
       IN /\ inbox' = [inbox EXCEPT ![c] = Tail(@)]
          /\ IF ~m.isdict
             THEN \* data.get raises AttributeError, caught by the outer except
                  /\ pc' = [pc EXCEPT ![c] = "done"]
                  /\ handled' = [handled EXCEPT ![c] = Append(@, [msg |-> m, outcome |-> NoCall])]
                  /\ UNCHANGED <<cur, pending, calls>>
             ELSE \E o \in Outcomes(m) :
                  LET items == Reply(m, o) IN
                  /\ handled' = [handled EXCEPT ![c] = Append(@, [msg |-> m, outcome |-> o])]
                  /\ calls' = IF Called(m)
                              THEN calls \cup {[conn |-> c, id |-> m.id, method |-> m.method]}
                              ELSE calls
                  /\ cur' = [cur EXCEPT ![c] =
                                [request_id |-> m.id, method |-> m.method,
                                 stop |-> Called(m) /\ o.kind # "raise"]]
                  /\ pending' = [pending EXCEPT ![c] = items]
                  /\ pc' = [pc EXCEPT ![c] = IF items = <<>> THEN "recv" ELSE "send"]
    /\ UNCHANGED <<out, nsent, listening, init_completed, vs, daemon, eng>>

\* await send_json(websocket, response)
Send(c) ==
    /\ pc[c] = "send"
    /\ pending[c] # <<>>
    /\ out' = [out EXCEPT ![c] = Append(@, Frame(c, Head(pending[c])))]
    /\ pending' = [pending EXCEPT ![c] = Tail(@)]
    /\ pc' = [pc EXCEPT ![c] =
                IF Len(pending[c]) > 1 THEN "send"
                ELSE IF cur[c].stop /\ cur[c].method = "stop_server" THEN "stop"
                ELSE "recv"]
    /\ UNCHANGED <<cur, inbox, handled, calls, nsent, listening, init_completed,
                   vs, daemon, eng>>

\* await self._stop_server(): self.server.close() stops the listener at once
\* and leaves the closing of the open connections to the server's close
\* task; the handler then waits in self.server.wait_closed()
StopServer(c) ==
    /\ pc[c] = "stop"
    /\ listening' = FALSE
    /\ pc' = [pc EXCEPT ![c] = "closing"]
    /\ UNCHANGED <<cur, pending, out, inbox, handled, calls, nsent, init_completed,
                   vs, daemon, eng>>

\* the close task of the stopped server closes connection c, or the task of
\* its handler is cancelled when the event loop shuts down; what the
\* connection had not yet read or sent stays in inbox and pending, unserved
CloseConnection(c) ==
    /\ ~listening
    /\ daemon.pc = "serving"
    /\ pc[c] \notin {"done", "unconnected"}
    /\ pc' = [pc EXCEPT ![c] = "done"]
    /\ UNCHANGED <<cur, pending, out, inbox, handled, calls, nsent, listening,
                   init_completed, vs, daemon, eng>>

Next ==
    \/ \E c \in Conns, m \in Requests : ClientSend(c, m)
    \/ \E c \in Conns : Recv(c)
    \/ \E c \in Conns : Send(c)
    \/ \E c \in Conns : StopServer(c)
    \/ \E c \in Conns : CloseConnection(c)

Spec == Init /\ [][Next]_vars

\* the same server, its clients sending the requests of the method surface
NextSurface ==
    \/ \E c \in Conns, m \in SurfaceRequests : ClientSend(c, m)
    \/ \E c \in Conns : Recv(c)
    \/ \E c \in Conns : Send(c)
    \/ \E c \in Conns : StopServer(c)
    \/ \E c \in Conns : CloseConnection(c)

SpecSurface == Init /\ [][NextSurface]_vars

---------------------------------------------------------------------------
(* Part 1: properties *)

\* the frames on connection c that answer the request with id n
FramesOf(c, n) == SelectSeq(out[c], LAMBDA f : f.req = n)

\* the iteration that read handled[c][k] has run to its end
Complete(c, k) == k < Len(handled[c]) \/ pending[c] = <<>>

\* the number of responses the iteration for h has to send
Expected(h) == IF h.msg.isdict THEN Len(Reply(h.msg, h.outcome)) ELSE 0

WasCalled(c, n) == \E x \in calls : x.conn = c /\ x.id = n

\* C1: a frame carries `more` iff it belongs to a streaming reply; of the
\* n >= 1 frames of a streaming reply the first n-1 carry more = true and
\* the last more = false, and no frame of the reply follows that one.
C1_MoreMarksStreaming ==
    \A c \in Conns : \A k \in DOMAIN handled[c] :
        LET h == handled[c][k]
            fs == FramesOf(c, h.msg.id)
        IN IF h.outcome.kind = "streaming"
           THEN /\ Len(fs) <= h.outcome.n
                /\ \A j \in DOMAIN fs :
                      fs[j].more = IF j < h.outcome.n THEN "true" ELSE "false"
           ELSE \A j \in DOMAIN fs : fs[j].more = Absent

\* a streaming reply of MaxChunks frames and a streaming reply of one frame
\* have been sent in full
C1_Witness ==
    /\ \E c \in Conns : \E k \in DOMAIN handled[c] :
          /\ handled[c][k].outcome = Streaming(MaxChunks)
          /\ Len(FramesOf(c, handled[c][k].msg.id)) = MaxChunks
    /\ \E c \in Conns : \E k \in DOMAIN handled[c] :
          /\ handled[c][k].outcome = Streaming(1)
          /\ Len(FramesOf(c, handled[c][k].msg.id)) = 1

C3_FramesEchoRequestId ==
    \A c \in Conns : \A i \in DOMAIN out[c] :
        LET f == out[c][i]
        IN /\ f.id = f.req
           /\ \E k \in DOMAIN handled[c] : handled[c][k].msg.id = f.id
           /\ \A d \in Conns \ {c} : \A k \in DOMAIN handled[d] :
                  handled[d][k].msg.id # f.id

\* two connections have been answered, one of them with a streamed reply
C3_Witness ==
    \E c, d \in Conns :
        /\ c # d
        /\ Len(out[c]) >= 2 /\ out[c][1].more = "true"
        /\ Len(out[d]) >= 1

NotJsonRpc2(m) == m.jsonrpc # "2.0"

\* C4: every message whose jsonrpc member is not "2.0" (absent or another
\* value) is answered with error -32600, reaches no handler, and leaves
\* the connection open.
C4_InvalidRequestRejected ==
    \A c \in Conns : \A k \in DOMAIN handled[c] :
        LET h == handled[c][k]
            fs == FramesOf(c, h.msg.id)
        IN NotJsonRpc2(h.msg) =>
            /\ ~WasCalled(c, h.msg.id)
            /\ \A j \in DOMAIN fs : fs[j].kind = "error" /\ fs[j].code = InvalidRequest
            /\ Complete(c, k) => Len(fs) = 1
            /\ (k = Len(handled[c]) /\ listening) => pc[c] # "done"

\* the part of C4 the code meets: messages that are JSON objects
C4_ObjectsRejected ==
    \A c \in Conns : \A k \in DOMAIN handled[c] :
        LET h == handled[c][k]
            fs == FramesOf(c, h.msg.id)
        IN (h.msg.isdict /\ NotJsonRpc2(h.msg)) =>
            /\ ~WasCalled(c, h.msg.id)
            /\ \A j \in DOMAIN fs : fs[j].kind = "error" /\ fs[j].code = InvalidRequest
            /\ Complete(c, k) => Len(fs) = 1
            /\ (k = Len(handled[c]) /\ listening) => pc[c] # "done"

Unregistered(m) ==
    m.isdict /\ m.jsonrpc = "2.0" /\ m.method # Absent /\ m.method \notin RpcMethods

\* C5: a jsonrpc "2.0" request naming something that is not a registered
\* RPC method gets exactly one error response, code -32601, and nothing of
\* the server object is called.
C5_UnknownMethodNotFound ==
    \A c \in Conns : \A k \in DOMAIN handled[c] :
        LET h == handled[c][k]
            fs == FramesOf(c, h.msg.id)
        IN Unregistered(h.msg) =>
            /\ ~WasCalled(c, h.msg.id)
            /\ \A j \in DOMAIN fs : fs[j].kind = "error" /\ fs[j].code = MethodNotFound
            /\ Len(fs) <= 1
            /\ Complete(c, k) => Len(fs) = 1

\* requests for an unmarked attribute and for a missing one were answered
C5_Witness ==
    /\ \E c \in Conns : \E k \in DOMAIN handled[c] :
          /\ handled[c][k].msg.method = "_stop_server"
          /\ Len(FramesOf(c, handled[c][k].msg.id)) = 1
    /\ \E c \in Conns : \E k \in DOMAIN handled[c] :
          /\ handled[c][k].msg.method = "no_such_method"
          /\ Len(FramesOf(c, handled[c][k].msg.id)) = 1

\* C6: a well-formed request naming a method of the documented surface is
\* routed to that method's handler and never answered with -32601.
C6_SurfaceDispatchable ==
    \A c \in Conns : \A k \in DOMAIN handled[c] :
        LET h == handled[c][k]
            fs == FramesOf(c, h.msg.id)
        IN (h.msg.isdict /\ h.msg.jsonrpc = "2.0" /\ h.msg.method \in SurfaceMethods) =>
            /\ WasCalled(c, h.msg.id)
            /\ \A j \in DOMAIN fs : fs[j].code # MethodNotFound

\* C7: when the handler of a dispatched method raises, exactly one error
\* response is sent, code -32603 with the exception's message, no result
\* frame, and the connection goes on to its next request.
C7_HandlerExceptionInternalError ==
    \A c \in Conns : \A k \in DOMAIN handled[c] :
        LET h == handled[c][k]
            fs == FramesOf(c, h.msg.id)
        IN h.outcome.kind = "raise" =>
            /\ \A j \in DOMAIN fs :
                  /\ fs[j].kind = "error"
                  /\ fs[j].code = InternalError
                  /\ fs[j].message = h.outcome.message
            /\ Len(fs) <= 1
            /\ Complete(c, k) => Len(fs) = 1
            /\ (k = Len(handled[c]) /\ Len(fs) = 1 /\ listening) => pc[c] = "recv"

\* a handler raised, its error was sent, and the next request of the same
\* connection was answered after it
C7_Witness ==
    \E c \in Conns :
        /\ Len(handled[c]) = 2
        /\ handled[c][1].outcome.kind = "raise"
        /\ Len(out[c]) = 2
        /\ out[c][1].code = InternalError
        /\ out[c][2].req = handled[c][2].msg.id

UnboundParams(m) ==
    /\ m.isdict /\ m.jsonrpc = "2.0" /\ m.method \in RpcMethods
    /\ ~Binds(m.method, m.params)

\* C8: a request to a registered method whose params cannot be bound to the
\* handler's parameters is answered with error -32602.
C8_BadParamsInvalidParams ==
    \A c \in Conns : \A k \in DOMAIN handled[c] :
        LET h == handled[c][k]
            fs == FramesOf(c, h.msg.id)
        IN UnboundParams(h.msg) =>
            /\ \A j \in DOMAIN fs : fs[j].kind = "error" /\ fs[j].code = -32602
            /\ Complete(c, k) => Len(fs) = 1

---------------------------------------------------------------------------
(* Part 2: TwilogServer.vector_search builds its chunks, and               *)
(* TwilogClient.vector_search joins the chunks it received.                *)

Min(a, b) == IF a < b THEN a ELSE b
Max(a, b) == IF a > b THEN a ELSE b

\* sizes of the embeddings store, around the chunk boundaries
RowCounts ==
    {0, 1, 2, chunk_size - 1, chunk_size, chunk_size + 1, 2 * chunk_size, 45000}

\* params.get("top_k", None): absent, or an integer
NoTopK == [given |-> FALSE, k |-> 0]
TopKs ==
    {NoTopK} \cup {[given |-> TRUE, k |-> k] :
                     k \in {0, 1, chunk_size, chunk_size + 1, 0 - 1}}

\* self.post_ids[idx] of row idx (rows are counted from 0)
PostId(idx) == idx + 1

\* similarities[idx] for the two stores of the model: scores that grow
\* with the row index ("asc") or fall with it ("desc")
Similarity(rows, order, idx) == IF order = "asc" THEN idx ELSE rows - idx

\* torch.argsort(similarities, descending=True)
SortedIndices(rows, order) ==
    [i \in 1..rows |-> IF order = "asc" THEN rows - i ELSE i - 1]

\* Python seq[:k]
Prefix(seq, k) ==
    IF k >= 0 THEN SubSeq(seq, 1, Min(k, Len(seq)))
    ELSE SubSeq(seq, 1, Max(Len(seq) + k, 0))

\* the (post_id, similarity) pairs of the target indices
SearchResults(rows, order, topk) ==
    LET sorted_indices == SortedIndices(rows, order)
        target_indices == IF topk.given THEN Prefix(sorted_indices, topk.k)
                          ELSE sorted_indices
    IN [i \in 1..Len(target_indices) |->
            <<PostId(target_indices[i]), Similarity(rows, order, target_indices[i])>>]

\* (len(results) + chunk_size - 1) // chunk_size if results else 1
TotalChunks(n) == IF n > 0 THEN (n + chunk_size - 1) \div chunk_size ELSE 1

EndIdxShort(start_idx, n) == Min(start_idx + chunk_size - 1, n)

\* min(start_idx + chunk_size, len(results))
EndIdx(start_idx, n) == Min(start_idx + chunk_size, n)

\* the chunk of loop index i
BuildChunk(results, i) ==
    LET start_idx == i * chunk_size
        end_idx == EndIdx(start_idx, Len(results))
    IN [data |-> SubSeq(results, start_idx + 1, end_idx),
        chunk |-> i + 1,
        total_chunks |-> TotalChunks(Len(results)),
        start_rank |-> start_idx + 1]

BuildChunks(results) ==
    [k \in 1..Max(1, TotalChunks(Len(results))) |-> BuildChunk(results, k - 1)]

EmptyChunks == <<[data |-> <<>>, chunk |-> 1, total_chunks |-> 1, start_rank |-> 1]>>

\* TwilogServer.vector_search, past its checks of init_completed and query
VectorSearch(rows, order, topk) ==
    IF rows = 0 THEN EmptyChunks
    ELSE BuildChunks(SearchResults(rows, order, topk))

RECURSIVE Extend(_, _, _)
\* for result in results: data.extend(result["data"])
Extend(data, results, k) ==
    IF k > Len(results) THEN data
    ELSE Extend(data \o results[k].data, results, k + 1)

\* TwilogClient.vector_search on the chunks in receipt order
ClientJoin(results) == [results[1] EXCEPT !.data = Extend(<<>>, results, 1)]

InitChunks ==
    /\ pc = [c \in Conns |-> "done"]
    /\ cur = [c \in Conns |-> NoRequest]
    /\ pending = [c \in Conns |-> <<>>]
    /\ out = [c \in Conns |-> <<>>]
    /\ inbox = [c \in Conns |-> <<>>]
    /\ handled = [c \in Conns |-> <<>>]
    /\ calls = {}
    /\ nsent = 0
    /\ listening = FALSE
    /\ init_completed = TRUE
    /\ daemon = DaemonServing
    /\ eng = EngIdle
    /\ \E rows \in RowCounts, order \in {"asc", "desc"}, topk \in TopKs :
          vs = [phase |-> "call", rows |-> rows, order |-> order, topk |-> topk,
                results |-> <<>>, chunks |-> <<>>, joined |-> <<>>]

\* the server runs vector_search; results is kept to state the properties
VectorSearchCall ==
    /\ vs.phase = "call"
    /\ vs' = [vs EXCEPT !.phase = "built",
                        !.results = IF vs.rows = 0 THEN <<>>
                                    ELSE SearchResults(vs.rows, vs.order, vs.topk),
                        !.chunks = VectorSearch(vs.rows, vs.order, vs.topk)]
    /\ UNCHANGED <<pc, cur, pending, out, inbox, handled, calls, nsent, listening,
                   init_completed, daemon, eng>>

\* the client joins the chunks
ClientJoinCall ==
    /\ vs.phase = "built"
    /\ vs' = [vs EXCEPT !.phase = "joined", !.joined = ClientJoin(vs.chunks)]
    /\ UNCHANGED <<pc, cur, pending, out, inbox, handled, calls, nsent, listening,
                   init_completed, daemon, eng>>

NextChunks == VectorSearchCall \/ ClientJoinCall

SpecChunks == InitChunks /\ [][NextChunks]_vars

\* the number of results in the chunks before chunk k
RECURSIVE SizeBefore(_, _)
SizeBefore(chunks, k) ==
    IF k <= 1 THEN 0 ELSE SizeBefore(chunks, k - 1) + Len(chunks[k - 1].data)

\* C9: the chunks partition the result list R: joined in chunk order they
\* give exactly R; the first start_rank is 1, every start_rank is 1 plus
\* the sizes of the chunks before it, and no chunk exceeds chunk_size.
C9_ChunksPartitionResults ==
    /\ vs.phase \in {"built", "joined"} =>
          /\ Len(vs.chunks) >= 1
          /\ Extend(<<>>, vs.chunks, 1) = vs.results
          /\ vs.chunks[1].start_rank = 1
          /\ \A k \in DOMAIN vs.chunks :
                /\ vs.chunks[k].start_rank = 1 + SizeBefore(vs.chunks, k)
                /\ Len(vs.chunks[k].data) <= 20000
    /\ vs.phase = "joined" => vs.joined.data = vs.results

\* 45000 results were built into three chunks and joined by the client
C9_Witness ==
    /\ vs.phase = "joined"
    /\ Len(vs.results) = 45000
    /\ Len(vs.chunks) = 3

\* C10: a vector_search reply with N results goes on the wire as
\* ceil(N / 20000) response frames (one when N = 0) sharing the request id,
\* frame k being chunk k, with more = true on all but the last frame.
C10_VectorSearchStreamed ==
    \A c \in Conns : \A k \in DOMAIN handled[c] :
        LET h == handled[c][k]
            fs == FramesOf(c, h.msg.id)
        IN (h.msg.isdict /\ h.msg.jsonrpc = "2.0" /\ h.msg.method = "vector_search") =>
            \E n \in RowCounts :
                LET total == IF n = 0 THEN 1 ELSE (n + 20000 - 1) \div 20000
                IN /\ Len(fs) <= total
                   /\ Complete(c, k) => Len(fs) = total
                   /\ \A j \in DOMAIN fs :
                         /\ fs[j].kind = "result"
                         /\ fs[j].id = h.msg.id
                         /\ fs[j].chunk = j
                         /\ fs[j].more = IF j < total THEN "true" ELSE "false"

---------------------------------------------------------------------------
(* Part 3: the daemon process `_daemon`: main, EmbedServer.start_server,   *)
(* init_model, the notifications to the front process, the serve loop.     *)
(* The front process (start_daemon) listens for the notifications; the     *)
(* types of the frames it received are kept in daemon.frames.              *)

\* what the environment of the daemon holds against it
EmbedServerFaults == {"none", "empty_model_name", "model_load"}

TwilogServerFaults ==
    {"none", "no_metadata_file", "bad_metadata_json", "no_model_entry",
     "empty_model_name", "model_load", "embeddings_load", "no_csv_path"}

Faults(cls) == IF cls = "EmbedServer" THEN EmbedServerFaults ELSE TwilogServerFaults

\* the process at the start of main; front: the front process is listening
DaemonStart(cls, fault, front) ==
    [pc |-> "main", cls |-> cls, fault |-> fault, front |-> front,
     model |-> FALSE, search_engine |-> FALSE, notified |-> FALSE,
     error |-> Absent, frames |-> <<>>]

InitDaemon ==
    /\ pc = [c \in Conns |-> "unconnected"]
    /\ cur = [c \in Conns |-> NoRequest]
    /\ pending = [c \in Conns |-> <<>>]
    /\ out = [c \in Conns |-> <<>>]
    /\ inbox = [c \in Conns |-> <<>>]
    /\ handled = [c \in Conns |-> <<>>]
    /\ calls = {}
    /\ nsent = 0
    /\ listening = FALSE
    /\ init_completed = FALSE
    /\ vs = VsIdle
    /\ eng = EngIdle
    /\ \E cls \in {"EmbedServer", "TwilogServer"}, front \in BOOLEAN :
          \E fault \in Faults(cls) : daemon = DaemonStart(cls, fault, front)

\* main of twilog_server.py reads meta.json and constructs the server; its
\* except clause catches FileNotFoundError and KeyError, prints and returns,
\* a JSONDecodeError leaves main uncaught.  main of embed_server.py
\* constructs EmbedServer(args.model).
MetadataFails(d) ==
    /\ d.cls = "TwilogServer"
    /\ d.fault \in {"no_metadata_file", "bad_metadata_json", "no_model_entry"}

DaemonMain ==
    /\ daemon.pc = "main"
    /\ daemon' = [daemon EXCEPT !.pc = IF MetadataFails(daemon) THEN "exited"
                                       ELSE "init_model"]
    /\ UNCHANGED <<pc, cur, pending, out, inbox, handled, calls, nsent, listening,
                   init_completed, vs, eng>>

\* init_model up to the end of EmbedServer._init_model: the model name is
\* tested, the libraries are imported, self.model = SentenceTransformer(...)
LoadModel ==
    /\ daemon.pc = "init_model"
    /\ daemon' =
          IF daemon.fault = "empty_model_name"
          THEN [daemon EXCEPT !.pc = "init_failed", !.error = "ValueError"]
          ELSE IF daemon.fault = "model_load"
          THEN [daemon EXCEPT !.pc = "init_failed", !.error = "model load failed"]
          ELSE [daemon EXCEPT !.pc = "model_loaded", !.model = TRUE]
    /\ UNCHANGED <<pc, cur, pending, out, inbox, handled, calls, nsent, listening,
                   init_completed, vs, eng>>

\* TwilogServer._init_model: self.post_ids, self.vectors = self._load_embeddings()
LoadEmbeddings ==
    /\ daemon.pc = "model_loaded"
    /\ daemon.cls = "TwilogServer"
    /\ daemon' =
          IF daemon.fault = "embeddings_load"
          THEN [daemon EXCEPT !.pc = "init_failed", !.error = "embeddings load failed"]
          ELSE [daemon EXCEPT !.pc = "embeddings_loaded"]
    /\ UNCHANGED <<pc, cur, pending, out, inbox, handled, calls, nsent, listening,
                   init_completed, vs, eng>>

\* TwilogServer._init_search_engine: _load_csv_path raises ValueError without
\* csv_path; SearchEngine(csv_path) passes one argument to
\* SearchEngine.__init__(self, embeddings_dir, embed_func), a TypeError.
\* self.search_engine is never assigned.
InitSearchEngine ==
    /\ daemon.pc = "embeddings_loaded"
    /\ daemon' = [daemon EXCEPT !.pc = "init_failed",
                                !.error = IF daemon.fault = "no_csv_path"
                                          THEN "ValueError" ELSE "TypeError"]
    /\ UNCHANGED <<pc, cur, pending, out, inbox, handled, calls, nsent, listening,
                   init_completed, vs, eng>>

\* self._init_model() has returned
InitModelDone(d) ==
    \/ d.cls = "EmbedServer" /\ d.pc = "model_loaded"
    \/ d.pc = "search_engine_ready"

\* init_model: self.init_completed = True
CompleteInit ==
    /\ InitModelDone(daemon)
    /\ init_completed' = TRUE
    /\ daemon' = [daemon EXCEPT !.pc = "notify"]
    /\ UNCHANGED <<pc, cur, pending, out, inbox, handled, calls, nsent, listening,
                   vs, eng>>

\* a notification reaches the front process when it is listening; the
\* notify functions swallow the connection error when it is not
FrontReceives(d, type) == IF d.front THEN Append(d.frames, type) ELSE d.frames

\* start_server, except Exception: report_progress, notify_frontend_error, return
NotifyError ==
    /\ daemon.pc = "init_failed"
    /\ daemon' = [daemon EXCEPT !.pc = "exited",
                                !.frames = FrontReceives(daemon, "init_error")]
    /\ UNCHANGED <<pc, cur, pending, out, inbox, handled, calls, nsent, listening,
                   init_completed, vs, eng>>

\* start_server: await self.notify_frontend_completion()
NotifyCompletion ==
    /\ daemon.pc = "notify"
    /\ daemon' = [daemon EXCEPT !.pc = "start", !.notified = TRUE,
                                !.frames = FrontReceives(daemon, "init_completed")]
    /\ UNCHANGED <<pc, cur, pending, out, inbox, handled, calls, nsent, listening,
                   init_completed, vs, eng>>

CanStartServerEarly(d) == d.pc \in {"init_model", "start"}

\* start_server has reached `await self._start_server()`
CanStartServer(d) == d.pc = "start"

\* _start_server: self.server = await websockets.serve(self.handle_client, ...)
StartServer ==
    /\ CanStartServer(daemon)
    /\ listening' = TRUE
    /\ daemon' = [daemon EXCEPT !.pc = "serving"]
    /\ UNCHANGED <<pc, cur, pending, out, inbox, handled, calls, nsent,
                   init_completed, vs, eng>>

\* a client opens a connection; the server starts a handle_client task
Connect(c) ==
    /\ listening
    /\ pc[c] = "unconnected"
    /\ pc' = [pc EXCEPT ![c] = "recv"]
    /\ UNCHANGED <<cur, pending, out, inbox, handled, calls, nsent, listening,
                   init_completed, vs, daemon, eng>>

\* server.close() cancels serve_forever; _start_server catches the
\* CancelledError and returns, start_server and main return, and the event
\* loop cancels the handler tasks that are left
ServeReturn ==
    /\ daemon.pc = "serving"
    /\ ~listening
    /\ daemon' = [daemon EXCEPT !.pc = "stopped"]
    /\ pc' = [c \in Conns |-> IF pc[c] = "unconnected" THEN pc[c] ELSE "done"]
    /\ UNCHANGED <<cur, pending, out, inbox, handled, calls, nsent, listening,
                   init_completed, vs, eng>>

\* the requests of the clients of the daemon
DaemonRequests ==
    {Msg("2.0", "check_init", "none"), Msg("2.0", "embed_text", "text"),
     Msg("2.0", "stop_server", "none")}

NextDaemon ==
    \/ DaemonMain
    \/ LoadModel
    \/ LoadEmbeddings
    \/ InitSearchEngine
    \/ CompleteInit
    \/ NotifyError
    \/ NotifyCompletion
    \/ StartServer
    \/ \E c \in Conns : Connect(c)
    \/ \E c \in Conns, m \in DaemonRequests : ClientSend(c, m)
    \/ \E c \in Conns : Recv(c)
    \/ \E c \in Conns : Send(c)
    \/ \E c \in Conns : StopServer(c)
    \/ \E c \in Conns : CloseConnection(c)
    \/ ServeReturn

SpecDaemon == InitDaemon /\ [][NextDaemon]_vars

\* C11: the daemon listens only after init_model has set init_completed with
\* the model loaded and after the notification step of start_server; so
\* whenever a connection exists or a request has been handled,
\* init_completed is true and the model is loaded.
C11_ListensAfterInit ==
    /\ listening =>
          /\ init_completed /\ daemon.model /\ daemon.notified
          /\ daemon.front => daemon.frames = <<"init_completed">>
    /\ \A c \in Conns :
          (pc[c] # "unconnected" \/ handled[c] # <<>>) =>
              init_completed /\ daemon.model /\ daemon.notified

\* the front process was notified, then a client's embed_text was answered
\* with a result while the daemon was listening
C11_Witness ==
    /\ listening
    /\ daemon.frames = <<"init_completed">>
    /\ \E c \in Conns : \E k \in DOMAIN handled[c] :
          /\ handled[c][k].msg.method = "embed_text"
          /\ handled[c][k].outcome = Value
          /\ Len(FramesOf(c, handled[c][k].msg.id)) = 1

\* C12: when start-up fails (the model, a store or the repository does not
\* load, the metadata file is missing or lacks the model entry) the front
\* process has received an init_error frame by the time the daemon has
\* exited, and the daemon never accepted JSON-RPC traffic.
C12_StartupFailureSignalled ==
    daemon.pc = "exited" =>
        /\ ~listening
        /\ \A c \in Conns : pc[c] = "unconnected" /\ handled[c] = <<>>
        /\ daemon.front => daemon.frames = <<"init_error">>

\* the part of C12 the code meets: a failure raised inside init_model
C12_InitModelFailureSignalled ==
    (daemon.pc = "exited" /\ daemon.error # Absent) =>
        /\ ~listening
        /\ \A c \in Conns : pc[c] = "unconnected" /\ handled[c] = <<>>
        /\ daemon.front => daemon.frames = <<"init_error">>

\* the response to a stop_server request is on the wire
StopReplied ==
    \E c \in Conns : \E k \in DOMAIN handled[c] :
        /\ handled[c][k].msg.method = "stop_server"
        /\ handled[c][k].outcome = Value
        /\ Len(FramesOf(c, handled[c][k].msg.id)) = 1

\* C13: the listener is closed only after the response to stop_server was
\* sent, and once that response was sent and the listener closed the server
\* handles no further request, on this or on any other connection.
C13_StopServerQuiesces ==
    [][/\ (listening /\ ~listening') => StopReplied
       /\ (StopReplied /\ ~listening) => (handled' = handled /\ calls' = calls)]_vars

---------------------------------------------------------------------------
(* The business methods of the server object, called on the object in the  *)
(* states it passes through from construction to serving.                  *)

BusinessMethods ==
    {"embed_text", "vector_search", "search_similar", "search_posts_by_text",
     "get_user_stats", "get_database_stats", "get_user_list", "suggest_users"}

\* the business methods an instance of the class has
BusinessAttributes(cls) ==
    IF cls = "EmbedServer" THEN {"embed_text"}
    ELSE {"embed_text", "vector_search", "search_similar", "search_posts_by_text",
          "get_user_stats", "get_database_stats"}

\* the argument a call passes: "none", or the one named member, which
\* "empty_text" carries as the empty string
MethodArguments == {"none", "text", "empty_text", "query", "search_term"}

Raised(e) == [kind |-> "raise", error |-> e, computed |-> FALSE]
Computed == [kind |-> "value", error |-> Absent, computed |-> TRUE]

NotReadyNever(ready) == FALSE

\* if not self.init_completed: raise RuntimeError(...)
NotReady(ready) == ~ready

\* the result of obj.method(arg) on an object with the given fields
CallMethod(cls, method, arg, ready, model, search_engine) ==
    IF method \notin BusinessAttributes(cls) THEN Raised("AttributeError")
    ELSE CASE method = "embed_text" ->
                IF NotReady(ready) THEN Raised("RuntimeError")
                ELSE IF arg # "text" THEN Raised("ValueError")
                ELSE IF ~model THEN Raised("RuntimeError")
                ELSE Computed
           [] method = "vector_search" ->
                IF NotReady(ready) THEN Raised("RuntimeError")
                ELSE IF arg # "query" THEN Raised("ValueError")
                ELSE Computed
           [] method = "search_similar" ->
                IF NotReady(ready) THEN Raised("RuntimeError")
                ELSE IF ~search_engine THEN Raised("RuntimeError")
                ELSE IF arg # "query" THEN Raised("ValueError")
                ELSE Computed
           [] method = "search_posts_by_text" ->
                IF ~search_engine THEN Raised("RuntimeError")
                ELSE IF arg # "search_term" THEN Raised("ValueError")
                ELSE Computed
           [] OTHER ->    \* get_user_stats, get_database_stats
                IF ~search_engine THEN Raised("RuntimeError")
                ELSE Computed

\* a caller in the process calls a business method on the server object
Invoke(method, arg) ==
    /\ daemon.pc \notin {"main", "exited"}
    /\ eng' = [op |-> "invoke", method |-> method, arg |-> arg,
               ready |-> init_completed,
               result |-> CallMethod(daemon.cls, method, arg, init_completed,
                                     daemon.model, daemon.search_engine)]
    /\ UNCHANGED <<pc, cur, pending, out, inbox, handled, calls, nsent, listening,
                   init_completed, vs, daemon>>

NextMethods ==
    \/ DaemonMain
    \/ LoadModel
    \/ LoadEmbeddings
    \/ InitSearchEngine
    \/ CompleteInit
    \/ NotifyError
    \/ NotifyCompletion
    \/ StartServer
    \/ \E method \in BusinessMethods, arg \in MethodArguments : Invoke(method, arg)

SpecMethods == InitDaemon /\ [][NextMethods]_vars

\* C14: a business method called while init_completed is false ends with an
\* error and computes no embedding, search or statistics.
C14_NotReadyRejected ==
    (eng.op = "invoke" /\ ~eng.ready) =>
        /\ eng.result.kind = "raise"
        /\ ~eng.result.computed

\* get_user_stats, which tests self.search_engine and not init_completed,
\* was refused on a TwilogServer whose model and embeddings are loaded and
\* whose init_completed is not set
C14_Witness ==
    /\ eng.op = "invoke" /\ ~eng.ready
    /\ eng.method = "get_user_stats"
    /\ eng.result = Raised("RuntimeError")
    /\ daemon.cls = "TwilogServer" /\ daemon.model /\ daemon.pc = "embeddings_loaded"

---------------------------------------------------------------------------
(* Part 4: SearchEngine and the settings it filters with.                  *)

Users == {"alice", "bob", "carol"}

\* SearchEngine.user_post_counts: carol has no recorded post
user_post_counts == [u \in {"alice", "bob"} |-> IF u = "alice" THEN 3 ELSE 1]

\* user_post_counts.get(user, 0)
PostCount(counts, user) == IF user \in DOMAIN counts THEN counts[user] ELSE 0

\* a filter_settings dict of UserFilterSettings: has_x says that key x is
\* in the dict, x is its value; a user list is kept as the set of its members
UserFilter(hi, i, he, e, hmin, tmin, hmax, tmax) ==
    [has_includes |-> hi, includes |-> i, has_excludes |-> he, excludes |-> e,
     has_threshold_min |-> hmin, threshold_min |-> tmin,
     has_threshold_max |-> hmax, threshold_max |-> tmax]

NoUserFilter == UserFilter(FALSE, {}, FALSE, {}, FALSE, 0, FALSE, 0)

UserLists == {{}, {"alice"}, {"alice", "bob"}, {"carol"}}

\* the dicts SearchSettings.from_dict stores as it receives them
UserFilters ==
    {UserFilter(hi, i, he, e, hmin, tmin, hmax, tmax) :
        hi \in BOOLEAN, i \in UserLists, he \in BOOLEAN, e \in UserLists,
        hmin \in BOOLEAN, tmin \in {0, 2}, hmax \in BOOLEAN, tmax \in {0, 2}}

\* a dict holds no value for a key it does not have
WellFormedFilter(f) ==
    /\ ~f.has_includes => f.includes = {}
    /\ ~f.has_excludes => f.excludes = {}
    /\ ~f.has_threshold_min => f.threshold_min = 0
    /\ ~f.has_threshold_max => f.threshold_max = 0

\* `not self.filter_settings`: the dict is empty
EmptyFilter(f) ==
    ~(f.has_includes \/ f.has_excludes \/ f.has_threshold_min \/ f.has_threshold_max)

\* UserFilterSettings.is_user_allowed
is_user_allowed(f, user, counts) ==
    IF EmptyFilter(f) THEN TRUE
    ELSE IF f.has_includes /\ user \notin f.includes THEN FALSE
    ELSE IF ~f.has_includes /\ f.has_excludes /\ user \in f.excludes THEN FALSE
    ELSE LET post_count == PostCount(counts, user)
         IN IF f.has_threshold_min /\ post_count < f.threshold_min THEN FALSE
            ELSE IF f.has_threshold_max /\ post_count > f.threshold_max THEN FALSE
            ELSE TRUE

InitUserFilter ==
    /\ pc = [c \in Conns |-> "done"]
    /\ cur = [c \in Conns |-> NoRequest]
    /\ pending = [c \in Conns |-> <<>>]
    /\ out = [c \in Conns |-> <<>>]
    /\ inbox = [c \in Conns |-> <<>>]
    /\ handled = [c \in Conns |-> <<>>]
    /\ calls = {}
    /\ nsent = 0
    /\ listening = FALSE
    /\ init_completed = TRUE
    /\ vs = VsIdle
    /\ daemon = DaemonServing
    /\ \E f \in UserFilters, user \in Users :
          /\ WellFormedFilter(f)
          /\ eng = [op |-> "is_user_allowed", phase |-> "call",
                    filter |-> f, user |-> user, allowed |-> FALSE]

\* search_similar asks the filter about the author of a post
IsUserAllowedCall ==
    /\ eng.op = "is_user_allowed"
    /\ eng.phase = "call"
    /\ eng' = [eng EXCEPT !.phase = "returned",
                          !.allowed = is_user_allowed(eng.filter, eng.user,
                                                      user_post_counts)]
    /\ UNCHANGED <<pc, cur, pending, out, inbox, handled, calls, nsent, listening,
                   init_completed, vs, daemon>>

NextUserFilter == IsUserAllowedCall

SpecUserFilter == InitUserFilter /\ [][NextUserFilter]_vars

\* C17: is_user_allowed returns true iff (includes is absent or empty or
\* contains the author) and (excludes is absent or empty or does not
\* contain the author) and the post count of the author, 0 when the author
\* has no recorded post, is within the thresholds that are set.
C17_UserAllowedIff ==
    (eng.op = "is_user_allowed" /\ eng.phase = "returned") =>
        LET f == eng.filter
            count == IF eng.user \in DOMAIN user_post_counts
                     THEN user_post_counts[eng.user] ELSE 0
        IN eng.allowed <=>
              /\ (~f.has_includes \/ f.includes = {} \/ eng.user \in f.includes)
              /\ (~f.has_excludes \/ f.excludes = {} \/ eng.user \notin f.excludes)
              /\ (f.has_threshold_min => f.threshold_min <= count)
              /\ (f.has_threshold_max => count <= f.threshold_max)

\* the part of C17 the code meets: dicts with at most one of the two user
\* lists, and that one not empty
C17_OneListNonEmpty ==
    (/\ eng.op = "is_user_allowed" /\ eng.phase = "returned"
     /\ ~(eng.filter.has_includes /\ eng.filter.has_excludes)
     /\ eng.filter.has_includes => eng.filter.includes # {}) =>
        LET f == eng.filter
            count == IF eng.user \in DOMAIN user_post_counts
                     THEN user_post_counts[eng.user] ELSE 0
        IN eng.allowed <=>
              /\ (~f.has_includes \/ eng.user \in f.includes)
              /\ (~f.has_excludes \/ eng.user \notin f.excludes)
              /\ (f.has_threshold_min => f.threshold_min <= count)
              /\ (f.has_threshold_max => count <= f.threshold_max)

---------------------------------------------------------------------------
(* SearchEngine.search_similar.  A timestamp 'YYYY-MM-DD HH:MM:SS' is kept *)
(* as a number, the order of the numbers being the lexicographic order of  *)
(* the strings; a score is kept in hundredths.                             *)

MaxStream == 3

\* limit=10000 of the text search behind _generate_text_results
TextResultLimit == 10000

SingleModes == {"content", "reasoning", "summary"}
FusionModes == {"average", "product", "weighted"}
Modes == SingleModes \cup FusionModes

\* the posts of the repository; matches: the text sources of the post that
\* satisfy the text filter of the query
Post(id, user, content, timestamp, matches) ==
    [post_id |-> id, user |-> user, content |-> content, timestamp |-> timestamp,
     matches |-> matches]

PostOf(id) ==
    CASE id = 1 -> Post(1, "alice", "x", 3, {"content", "reasoning"})
      [] id = 2 -> Post(2, "alice", "x", 1, {"content"})
      [] id = 3 -> Post(3, "bob", "x", 2, {"content", "summary"})
      [] OTHER -> Post(id, "alice", "y", id, {"reasoning"})

PostIds == 1..(MaxStream + 1)

\* the rows of the vector store in descending order of similarity
Streams ==
    {st \in UNION {[1..n -> PostIds] : n \in 0..MaxStream} :
        \A i, j \in DOMAIN st : i # j => st[i] # st[j]}

\* similarity of the row at position i of the sorted rows
SimilarityAt(i) == 99 - i

\* a filter_settings dict of DateFilterSettings
DateFilter(hf, from, ht, to) == [has_from |-> hf, from |-> from, has_to |-> ht, to |-> to]

NoDateFilter == DateFilter(FALSE, 0, FALSE, 0)

\* DateFilterSettings.is_date_allowed, for timestamps that parse
is_date_allowed(f, timestamp) ==
    IF ~f.has_from /\ ~f.has_to THEN TRUE
    ELSE IF f.has_from /\ ~f.has_to THEN timestamp >= f.from
    ELSE IF f.has_to /\ ~f.has_from THEN timestamp <= f.to
    ELSE f.from <= timestamp /\ timestamp <= f.to

\* the parsed query: is the vector part, is the text part non-empty
Queries == [vector_query : BOOLEAN, text_filter : BOOLEAN]

\* the search settings of the calls
SettingsSet ==
    [user_filter : {NoUserFilter, UserFilter(FALSE, {}, TRUE, {"bob"}, FALSE, 0, FALSE, 0)},
     date_filter : {NoDateFilter, DateFilter(TRUE, 2, FALSE, 0)},
     top_k : 0..MaxStream]

ConvertModeLenient(mode) ==
    [ok |-> TRUE, source |-> IF mode \in SingleModes THEN mode ELSE "content"]

\* SearchEngine._convert_mode_to_source: ok = FALSE stands for the ValueError
_convert_mode_to_source(mode) ==
    IF mode \in SingleModes THEN [ok |-> TRUE, source |-> mode]
    ELSE [ok |-> FALSE, source |-> Absent]

RECURSIVE SortNewestFirst(_)
\* results.sort(key=timestamp, reverse=True) on posts of distinct timestamps
SortNewestFirst(ids) ==
    IF ids = {} THEN <<>>
    ELSE LET newest == CHOOSE id \in ids :
                          \A other \in ids : PostOf(other).timestamp <= PostOf(id).timestamp
         IN <<newest>> \o SortNewestFirst(ids \ {newest})

\* SearchEngine.search_posts_by_text over the posts of the repository
search_posts_by_text(repository, limit, source) ==
    Prefix(SortNewestFirst({id \in repository : source \in PostOf(id).matches}), limit)

\* _generate_text_results: (post_info, 1.0) for every text result
_generate_text_results(repository, source) ==
    LET text_results == search_posts_by_text(repository, TextResultLimit, source)
    IN [i \in DOMAIN text_results |-> [post_id |-> text_results[i], similarity |-> 100]]

\* _generate_vector_results: the rows in score order; SearchEngine.vector_search
\* drops the rows whose content fails the text filter of the query
_generate_vector_results(stream, text_filter) ==
    LET scored == [i \in DOMAIN stream |-> [post_id |-> stream[i], similarity |-> SimilarityAt(i)]]
    IN IF text_filter
       THEN SelectSeq(scored, LAMBDA r : "content" \in PostOf(r.post_id).matches)
       ELSE scored

FullAfterOneMore(filtered_results, top_k) == Len(filtered_results) > top_k

\* if len(filtered_results) >= top_k: break
Full(filtered_results, top_k) == Len(filtered_results) >= top_k

Key(post) == <<post.user, post.content>>

\* seen_combinations[key] = (post_id, similarity, timestamp, url)
Remember(seen, post, similarity) ==
    {e \in seen : e.key # Key(post)}
        \cup {[key |-> Key(post), post_id |-> post.post_id, similarity |-> similarity,
               timestamp |-> post.timestamp]}

RECURSIVE FilterLoop(_, _, _, _, _, _)
\* the loop of search_similar over the generator, from its element i on
FilterLoop(generator, i, settings, filtered_results, seen, rank) ==
    IF i > Len(generator) THEN filtered_results
    ELSE
        LET post == PostOf(generator[i].post_id)
            similarity == generator[i].similarity
        IN IF ~is_user_allowed(settings.user_filter, post.user, user_post_counts)
           THEN FilterLoop(generator, i + 1, settings, filtered_results, seen, rank)
           ELSE IF ~is_date_allowed(settings.date_filter, post.timestamp)
           THEN FilterLoop(generator, i + 1, settings, filtered_results, seen, rank)
           ELSE IF \E e \in seen : e.key = Key(post)
           THEN LET existing == CHOOSE e \in seen : e.key = Key(post)
                IN FilterLoop(generator, i + 1, settings, filtered_results,
                              IF post.timestamp < existing.timestamp
                              THEN Remember(seen, post, similarity) ELSE seen,
                              rank)
           ELSE LET appended == Append(filtered_results,
                                       [rank |-> rank, similarity |-> similarity,
                                        post_id |-> post.post_id])
                IN IF Full(appended, settings.top_k) THEN appended
                   ELSE FilterLoop(generator, i + 1, settings, appended,
                                   Remember(seen, post, similarity), rank + 1)

Failed(e, embedded) ==
    [kind |-> "raise", error |-> e, embedded |-> embedded, generator |-> <<>>,
     results |-> <<>>]

Returned(embedded, generator, results) ==
    [kind |-> "value", error |-> Absent, embedded |-> embedded,
     generator |-> generator, results |-> results]

\* SearchEngine.search_similar; stream: the rows of the store of the mode in
\* score order, whose posts are the posts of the repository
search_similar(query, settings, mode, stream) ==
    IF ~query.vector_query
    THEN IF ~query.text_filter THEN Failed("Empty query", FALSE)
         ELSE LET text_source == _convert_mode_to_source(mode)
              IN IF ~text_source.ok THEN Failed("Hybrid mode is not supported", FALSE)
                 ELSE LET generator ==
                              _generate_text_results({stream[i] : i \in DOMAIN stream},
                                                     text_source.source)
                      IN Returned(FALSE, generator,
                                  FilterLoop(generator, 1, settings, <<>>, {}, 1))
    ELSE LET generator == _generate_vector_results(stream, query.text_filter)
         IN Returned(TRUE, generator, FilterLoop(generator, 1, settings, <<>>, {}, 1))

InitSimilar ==
    /\ pc = [c \in Conns |-> "done"]
    /\ cur = [c \in Conns |-> NoRequest]
    /\ pending = [c \in Conns |-> <<>>]
    /\ out = [c \in Conns |-> <<>>]
    /\ inbox = [c \in Conns |-> <<>>]
    /\ handled = [c \in Conns |-> <<>>]
    /\ calls = {}
    /\ nsent = 0
    /\ listening = FALSE
    /\ init_completed = TRUE
    /\ vs = VsIdle
    /\ daemon = DaemonServing
    /\ \E query \in Queries, settings \in SettingsSet, mode \in Modes, stream \in Streams :
          eng = [op |-> "search_similar", phase |-> "call", query |-> query,
                 settings |-> settings, mode |-> mode, stream |-> stream,
                 result |-> Failed(Absent, FALSE)]

SearchSimilarCall ==
    /\ eng.op = "search_similar"
    /\ eng.phase = "call"
    /\ eng' = [eng EXCEPT !.phase = "returned",
                          !.result = search_similar(eng.query, eng.settings, eng.mode,
                                                    eng.stream)]
    /\ UNCHANGED <<pc, cur, pending, out, inbox, handled, calls, nsent, listening,
                   init_completed, vs, daemon>>

NextSimilar == SearchSimilarCall

SpecSimilar == InitSimilar /\ [][NextSimilar]_vars

\* the call of search_similar has returned a result list
SimilarReturned ==
    /\ eng.op = "search_similar"
    /\ eng.phase = "returned"
    /\ eng.result.kind = "value"

\* the post passes the author filter and the date filter of the settings
PassesFilters(settings, id) ==
    /\ is_user_allowed(settings.user_filter, PostOf(id).user, user_post_counts)
    /\ is_date_allowed(settings.date_filter, PostOf(id).timestamp)

\* C15: in the list returned by search_similar every (author, content) key is
\* held by exactly one post, and that post has the smallest timestamp among
\* the delivered posts of its key that pass the author and date filters.
\* Stated for the calls whose loop consumed the whole stream, so that no
\* post is missing from the comparison because of top_k.
C15_OldestDuplicateKept ==
    (SimilarReturned /\ Len(eng.result.results) < eng.settings.top_k) =>
        LET results == eng.result.results
            generator == eng.result.generator
        IN /\ \A i, j \in DOMAIN results :
                  i # j => Key(PostOf(results[i].post_id)) # Key(PostOf(results[j].post_id))
           /\ \A i \in DOMAIN results, k \in DOMAIN generator :
                  (/\ PassesFilters(eng.settings, generator[k].post_id)
                   /\ Key(PostOf(generator[k].post_id)) = Key(PostOf(results[i].post_id)))
                  => PostOf(results[i].post_id).timestamp
                         <= PostOf(generator[k].post_id).timestamp

\* the positions of the stream whose post passes every filter and has no
\* earlier passing post of the same key
SurvivorPositions(generator, settings) ==
    {i \in DOMAIN generator :
        /\ PassesFilters(settings, generator[i].post_id)
        /\ ~\E j \in 1..(i - 1) :
               /\ PassesFilters(settings, generator[j].post_id)
               /\ Key(PostOf(generator[j].post_id)) = Key(PostOf(generator[i].post_id))}

RECURSIVE InOrder(_, _)
\* the elements of the stream at the given positions, in stream order
InOrder(generator, positions) ==
    IF positions = {} THEN <<>>
    ELSE LET first == CHOOSE i \in positions : \A j \in positions : i <= j
         IN <<generator[first]>> \o InOrder(generator, positions \ {first})

\* C16: for top_k >= 1 search_similar returns N <= top_k results, ranked
\* 1..N in list order, which are the first N posts of the scored stream that
\* pass every filter and are not collapsed as duplicates.
C16_RanksAreDense ==
    (SimilarReturned /\ eng.settings.top_k >= 1) =>
        LET results == eng.result.results
            survivors == InOrder(eng.result.generator,
                                 SurvivorPositions(eng.result.generator, eng.settings))
        IN /\ Len(results) <= eng.settings.top_k
           /\ Len(results) <= Len(survivors)
           /\ \A i \in DOMAIN results :
                  /\ results[i].rank = i
                  /\ results[i].post_id = survivors[i].post_id
                  /\ results[i].similarity = survivors[i].similarity

\* C16 witness: a call with top_k = 2 over a stream of three posts whose
\* first post is rejected by the author filter returns two results, ranked
\* 1 and 2, the rejected post having consumed no rank.
C16_Witness ==
    /\ SimilarReturned
    /\ eng.query.vector_query
    /\ eng.settings.top_k = 2
    /\ Len(eng.result.generator) = 3
    /\ ~PassesFilters(eng.settings, eng.result.generator[1].post_id)
    /\ Len(eng.result.results) = 2
    /\ eng.result.results[2].rank = 2
    /\ eng.result.results[2].post_id = eng.result.generator[3].post_id

---------------------------------------------------------------------------
(* SearchEngine.vector_search over the three vector stores, for one query  *)
(* with a vector part and no text part, top_k = None.  A store is the      *)
(* sequence of the post ids of its rows; an absent store directory loads   *)
(* as the empty store.  A similarity is kept in hundredths, together with  *)
(* the rows (store, post id) it was computed from.                         *)

MaxRows == 2

StoreNames == <<"content", "reasoning", "summary">>

\* the post_ids lists that _load_vectors can return for one store
Rows ==
    {r \in UNION {[1..n -> 1..(MaxRows + 1)] : n \in 0..MaxRows} :
        \A i, j \in DOMAIN r : i # j => r[i] # r[j]}

VectorStores == [content : Rows, reasoning : Rows, summary : Rows]

\* _load_all_vectors: self.post_ids are the ids of the content rows; the ids
\* of the reasoning rows and of the summary rows are dropped
post_ids(stores) == stores.content

\* F.cosine_similarity of the query with the row of post id in a store
CosineSimilarity(store, id) ==
    CASE store = "content" -> 20 * id
      [] store = "reasoning" -> 100 - 20 * id
      [] OTHER -> 50 + 5 * id

\* weights = [0.7, 0.2, 0.1], in hundredths
DefaultWeights == <<70, 20, 10>>

_get_available_modes(stores) ==
    LET available_modes == {s \in SingleModes : Len(stores[s]) > 0}
    IN available_modes
           \cup (IF Cardinality(available_modes) >= 2 THEN FusionModes ELSE {})

\* the similarity tensor of one store
StoreSimilarities(stores, store) ==
    [i \in DOMAIN stores[store] |->
        [score |-> CosineSimilarity(store, stores[store][i]),
         origin |-> {<<store, stores[store][i]>>}]]

\* torch.stack accepts tensors of one size only
Stackable(similarities) ==
    \A k \in DOMAIN similarities : Len(similarities[k]) = Len(similarities[1])

RECURSIVE SumAt(_, _, _, _)
\* sum over the first n stacked tensors of weight * element i
SumAt(similarities, weights, i, n) ==
    IF n = 0 THEN 0
    ELSE weights[n] * similarities[n][i].score + SumAt(similarities, weights, i, n - 1)

RECURSIVE SumSeq(_)
SumSeq(s) == IF s = <<>> THEN 0 ELSE Head(s) + SumSeq(Tail(s))

OriginsAt(similarities, i) ==
    UNION {similarities[k][i].origin : k \in DOMAIN similarities}

\* torch.stack(similarities) reduced along dim 0 with the given weights,
\* divided by divisor (mean: weights 1, divisor the number of tensors)
StackReduce(similarities, weights, divisor) ==
    [i \in DOMAIN similarities[1] |->
        [score |-> SumAt(similarities, weights, i, Len(similarities)) \div divisor,
         origin |-> OriginsAt(similarities, i)]]

\* result * sim broadcasts a tensor of one element
Broadcastable(a, b) == Len(a) = Len(b) \/ Len(a) = 1 \/ Len(b) = 1

Multiply(a, b) ==
    LET n == IF Len(a) >= Len(b) THEN Len(a) ELSE Len(b)
        At(t, i) == IF Len(t) = 1 THEN t[1] ELSE t[i]
    IN [i \in 1..n |-> [score |-> (At(a, i).score * At(b, i).score) \div 100,
                        origin |-> At(a, i).origin \cup At(b, i).origin]]

RECURSIVE ProductFrom(_, _, _)
\* for sim in similarities[1:]: result = result * sim
ProductFrom(result, similarities, k) ==
    IF k > Len(similarities) THEN [ok |-> TRUE, value |-> result]
    ELSE IF ~Broadcastable(result, similarities[k]) THEN [ok |-> FALSE, value |-> <<>>]
    ELSE ProductFrom(Multiply(result, similarities[k]), similarities, k + 1)

\* SearchEngine._calculate_similarities with weights = None; ok = FALSE
\* stands for the RuntimeError of torch on tensors of different sizes
_calculate_similarities(stores, mode) ==
    IF mode \in SingleModes THEN [ok |-> TRUE, value |-> StoreSimilarities(stores, mode)]
    ELSE
        LET available == SelectSeq(StoreNames, LAMBDA s : Len(stores[s]) > 0)
            similarities == [k \in DOMAIN available |-> StoreSimilarities(stores, available[k])]
            ones == [k \in DOMAIN similarities |-> 1]
            weights == Prefix(DefaultWeights, Len(similarities))
        IN IF Len(similarities) = 0 THEN [ok |-> TRUE, value |-> <<>>]
           ELSE IF mode = "average"
           THEN IF Stackable(similarities)
                THEN [ok |-> TRUE,
                      value |-> StackReduce(similarities, ones, Len(similarities))]
                ELSE [ok |-> FALSE, value |-> <<>>]
           ELSE IF mode = "product"
           THEN ProductFrom(similarities[1], similarities, 2)
           ELSE IF Stackable(similarities)
                THEN [ok |-> TRUE,
                      value |-> StackReduce(similarities, weights, SumSeq(weights))]
                ELSE [ok |-> FALSE, value |-> <<>>]

RECURSIVE ArgSortDescending(_, _)
\* torch.argsort(similarities, descending=True); equal scores in index order
ArgSortDescending(similarities, indices) ==
    IF indices = {} THEN <<>>
    ELSE LET best == CHOOSE i \in indices :
                        \A j \in indices :
                            \/ similarities[j].score < similarities[i].score
                            \/ (similarities[j].score = similarities[i].score /\ i <= j)
         IN <<best>> \o ArgSortDescending(similarities, indices \ {best})

VsRaised(e) == [kind |-> "raise", error |-> e, results |-> <<>>]

VsReturned(results) == [kind |-> "value", error |-> Absent, results |-> results]

\* SearchEngine.vector_search after the query is embedded and the stores are
\* loaded
vector_search(stores, mode) ==
    IF mode \notin _get_available_modes(stores) THEN VsRaised("mode is not available")
    ELSE
        LET similarities == _calculate_similarities(stores, mode)
        IN IF ~similarities.ok THEN VsRaised("RuntimeError")
           ELSE IF Len(similarities.value) = 0 THEN VsReturned(<<>>)
           ELSE IF Len(similarities.value) > Len(post_ids(stores))
           THEN VsRaised("IndexError")
           ELSE LET sorted_indices ==
                        ArgSortDescending(similarities.value, DOMAIN similarities.value)
                IN VsReturned([n \in DOMAIN sorted_indices |->
                                  [post_id |-> post_ids(stores)[sorted_indices[n]],
                                   similarity |-> similarities.value[sorted_indices[n]].score,
                                   origin |-> similarities.value[sorted_indices[n]].origin]])

InitVector ==
    /\ pc = [c \in Conns |-> "done"]
    /\ cur = [c \in Conns |-> NoRequest]
    /\ pending = [c \in Conns |-> <<>>]
    /\ out = [c \in Conns |-> <<>>]
    /\ inbox = [c \in Conns |-> <<>>]
    /\ handled = [c \in Conns |-> <<>>]
    /\ calls = {}
    /\ nsent = 0
    /\ listening = FALSE
    /\ init_completed = TRUE
    /\ vs = VsIdle
    /\ daemon = DaemonServing
    /\ \E stores \in VectorStores, mode \in Modes :
          eng = [op |-> "vector_search", phase |-> "call", stores |-> stores,
                 mode |-> mode, result |-> VsRaised(Absent)]

EngineVectorSearchCall ==
    /\ eng.op = "vector_search"
    /\ eng.phase = "call"
    /\ eng' = [eng EXCEPT !.phase = "returned",
                          !.result = vector_search(eng.stores, eng.mode)]
    /\ UNCHANGED <<pc, cur, pending, out, inbox, handled, calls, nsent, listening,
                   init_completed, vs, daemon>>

NextVector == EngineVectorSearchCall

SpecVector == InitVector /\ [][NextVector]_vars

VectorReturned == eng.op = "vector_search" /\ eng.phase = "returned"

Ids(rows) == {rows[i] : i \in DOMAIN rows}

\* C19: a vector search in a fusion mode fails with the mode-unavailable
\* error whenever one of the three stores is absent or empty, and a search
\* in a single-source mode fails whenever the store of the mode is absent
\* or empty; no result list is returned in either case.
C19_ModeUnavailable ==
    VectorReturned =>
        /\ (eng.mode \in FusionModes /\ \E s \in SingleModes : Len(eng.stores[s]) = 0) =>
               (eng.result.kind = "raise" /\ eng.result.error = "mode is not available")
        /\ (eng.mode \in SingleModes /\ Len(eng.stores[eng.mode]) = 0) =>
               (eng.result.kind = "raise" /\ eng.result.error = "mode is not available")

\* the single-source half of C19, and the fusion modes with fewer than two
\* stores
C19_SingleModeUnavailable ==
    VectorReturned =>
        /\ (eng.mode \in SingleModes /\ Len(eng.stores[eng.mode]) = 0) =>
               (eng.result.kind = "raise" /\ eng.result.error = "mode is not available")
        /\ (eng.mode \in FusionModes
              /\ Cardinality({s \in SingleModes : Len(eng.stores[s]) > 0}) < 2) =>
               (eng.result.kind = "raise" /\ eng.result.error = "mode is not available")

\* the posts a mode ranges over
ModeDomain(stores, mode) ==
    IF mode \in FusionModes
    THEN Ids(stores.content) \cap Ids(stores.reasoning) \cap Ids(stores.summary)
    ELSE Ids(stores[mode])

\* C20: when the three stores hold different post-id sets, the post ids
\* returned by vector_search are exactly the domain of the mode (the
\* intersection of the three id sets for a fusion mode, the id set of the
\* store for a single-source mode) and each score carries the post id of
\* the rows that produced it.
C20_IdsOfModeDomain ==
    (/\ VectorReturned
     /\ eng.result.kind = "value"
     /\ ~(Ids(eng.stores.content) = Ids(eng.stores.reasoning)
            /\ Ids(eng.stores.reasoning) = Ids(eng.stores.summary))) =>
        LET results == eng.result.results
        IN /\ {results[n].post_id : n \in DOMAIN results} = ModeDomain(eng.stores, eng.mode)
           /\ \A n \in DOMAIN results :
                  \A o \in results[n].origin : o[2] = results[n].post_id

\* mode content: the ids and the rows are those of the content store
C20_ContentMode ==
    (VectorReturned /\ eng.result.kind = "value" /\ eng.mode = "content") =>
        LET results == eng.result.results
        IN /\ {results[n].post_id : n \in DOMAIN results} = Ids(eng.stores.content)
           /\ \A n \in DOMAIN results :
                  results[n].origin = {<<"content", results[n].post_id>>}

\* C21: search_similar called with top_k outside [1, 100] fails with an
\* out-of-range error and returns no results; in particular top_k = 0 never
\* yields a non-empty result list.
C21_TopKOutOfRangeFails ==
    (eng.op = "search_similar" /\ eng.phase = "returned"
       /\ eng.settings.top_k \notin 1..100) =>
        (eng.result.kind = "raise" /\ eng.result.results = <<>>)

---------------------------------------------------------------------------
(* parse_search_terms and SearchEngine.is_text_match.  A Python string is  *)
(* the sequence of its characters.                                         *)

MaxQuery == 4

MaxText == 2

\* the characters of a search term string: letters, space, '-', '"', backslash
QueryAlphabet == {"a", "B", " ", "-", "\"", "\\"}

\* the characters of a post text
TextAlphabet == {"a", "A", "b"}

StringsOver(alphabet, n) == UNION {[1..k -> alphabet] : k \in 0..n}

\* str.lower() on one character
LowerChar(c) == CASE c = "A" -> "a" [] c = "B" -> "b" [] OTHER -> c

\* str.lower()
Lower(s) == [i \in DOMAIN s |-> LowerChar(s[i])]

\* char.isspace()
IsSpace(c) == c = " "

\* the Python test `s in t` on strings
IsSubstring(s, t) ==
    \E k \in 0..(Len(t) - Len(s)) : SubSeq(t, k + 1, k + Len(s)) = s

RECURSIVE SkipSpaces(_, _)
\* while i < len(text) and text[i].isspace(): i += 1   (i counts from 1 here)
SkipSpaces(text, i) ==
    IF i <= Len(text) /\ IsSpace(text[i]) THEN SkipSpaces(text, i + 1) ELSE i

RECURSIVE ExtractTerm(_, _, _, _)
\* the inner loop of parse_search_terms: the term from position i on and the
\* position after it
ExtractTerm(text, i, term, quoted) ==
    IF i > Len(text) THEN [i |-> i, term |-> term]
    ELSE LET char == text[i]
         IN IF char = "\\" /\ i + 1 <= Len(text)
            THEN ExtractTerm(text, i + 2, Append(term, text[i + 1]), quoted)
            ELSE IF char = "\"" /\ ~quoted
            THEN ExtractTerm(text, i + 1, term, TRUE)
            ELSE IF char = "\"" /\ quoted
            THEN [i |-> i + 1, term |-> term]
            ELSE IF IsSpace(char) /\ ~quoted
            THEN [i |-> i, term |-> term]
            ELSE ExtractTerm(text, i + 1, Append(term, char), quoted)

RECURSIVE ParseFrom(_, _, _, _)
\* the outer loop of parse_search_terms from position i on
ParseFrom(text, i, include_terms, exclude_terms) ==
    LET start == SkipSpaces(text, i)
    IN IF start > Len(text)
       THEN [include_terms |-> include_terms, exclude_terms |-> exclude_terms]
       ELSE LET is_exclude == text[start] = "-"
                extracted == ExtractTerm(text, IF is_exclude THEN start + 1 ELSE start,
                                         <<>>, FALSE)
            IN IF extracted.term = <<>>
               THEN ParseFrom(text, extracted.i, include_terms, exclude_terms)
               ELSE IF is_exclude
               THEN ParseFrom(text, extracted.i, include_terms,
                              Append(exclude_terms, extracted.term))
               ELSE ParseFrom(text, extracted.i, Append(include_terms, extracted.term),
                              exclude_terms)

parse_search_terms(text) == ParseFrom(text, 1, <<>>, <<>>)

TermMatchesAsWritten(term, content_lower) == IsSubstring(term, content_lower)

\* term.lower() in content_lower
TermMatches(term, content_lower) == IsSubstring(Lower(term), content_lower)

\* SearchEngine.is_text_match
is_text_match(content, include_terms, exclude_terms) ==
    LET content_lower == Lower(content)
    IN IF include_terms # <<>>
          /\ ~\A k \in DOMAIN include_terms : TermMatches(include_terms[k], content_lower)
       THEN FALSE
       ELSE IF exclude_terms # <<>>
               /\ \E k \in DOMAIN exclude_terms : TermMatches(exclude_terms[k], content_lower)
       THEN FALSE
       ELSE TRUE

InitText ==
    /\ pc = [c \in Conns |-> "done"]
    /\ cur = [c \in Conns |-> NoRequest]
    /\ pending = [c \in Conns |-> <<>>]
    /\ out = [c \in Conns |-> <<>>]
    /\ inbox = [c \in Conns |-> <<>>]
    /\ handled = [c \in Conns |-> <<>>]
    /\ calls = {}
    /\ nsent = 0
    /\ listening = FALSE
    /\ init_completed = TRUE
    /\ vs = VsIdle
    /\ daemon = DaemonServing
    /\ \E search_term \in StringsOver(QueryAlphabet, MaxQuery),
          content \in StringsOver(TextAlphabet, MaxText) :
          eng = [op |-> "text", phase |-> "call", search_term |-> search_term,
                 content |-> content, include_terms |-> <<>>, exclude_terms |-> <<>>,
                 match |-> FALSE]

\* include_terms, exclude_terms = parse_search_terms(search_term)
ParseSearchTermsCall ==
    /\ eng.op = "text"
    /\ eng.phase = "call"
    /\ LET parsed == parse_search_terms(eng.search_term)
       IN eng' = [eng EXCEPT !.phase = "parsed",
                             !.include_terms = parsed.include_terms,
                             !.exclude_terms = parsed.exclude_terms]
    /\ UNCHANGED <<pc, cur, pending, out, inbox, handled, calls, nsent, listening,
                   init_completed, vs, daemon>>

\* self.is_text_match(search_text, include_terms, exclude_terms)
IsTextMatchCall ==
    /\ eng.op = "text"
    /\ eng.phase = "parsed"
    /\ eng' = [eng EXCEPT !.phase = "matched",
                          !.match = is_text_match(eng.content, eng.include_terms,
                                                  eng.exclude_terms)]
    /\ UNCHANGED <<pc, cur, pending, out, inbox, handled, calls, nsent, listening,
                   init_completed, vs, daemon>>

NextText == ParseSearchTermsCall \/ IsTextMatchCall

SpecText == InitText /\ [][NextText]_vars

\* C22: with (includes, excludes) = parse_search_terms(query),
\* is_text_match(T, includes, excludes) is true if and only if every include
\* term is a substring of T and no exclude term is a substring of T, both
\* sides compared after lower-casing.
C22_MatchIffTerms ==
    (eng.op = "text" /\ eng.phase = "matched") =>
        (eng.match <=>
            /\ \A k \in DOMAIN eng.include_terms :
                   IsSubstring(Lower(eng.include_terms[k]), Lower(eng.content))
            /\ \A k \in DOMAIN eng.exclude_terms :
                   ~IsSubstring(Lower(eng.exclude_terms[k]), Lower(eng.content)))

\* C22 witness: the query `B -a` against the text "bb" matches: the include
\* term B is found after lower-casing and the exclude term a is not found.
C22_Witness ==
    /\ eng.op = "text"
    /\ eng.phase = "matched"
    /\ eng.search_term = <<"B", " ", "-", "a">>
    /\ eng.content = <<"b", "b">>
    /\ eng.include_terms = <<<<"B">>>>
    /\ eng.exclude_terms = <<<<"a">>>>
    /\ eng.match

RECURSIVE ShellTerm(_, _, _, _)
\* the term of a shell-style token from position i on: a backslash takes
\* the next character literally, double quotes are removed and keep the
\* whitespace between them, unquoted whitespace ends the token
ShellTerm(text, i, term, quoted) ==
    IF i > Len(text) THEN [i |-> i, term |-> term]
    ELSE LET char == text[i]
         IN IF char = "\\" /\ i + 1 <= Len(text)
            THEN ShellTerm(text, i + 2, Append(term, text[i + 1]), quoted)
            ELSE IF char = "\""
            THEN ShellTerm(text, i + 1, term, ~quoted)
            ELSE IF IsSpace(char) /\ ~quoted
            THEN [i |-> i, term |-> term]
            ELSE ShellTerm(text, i + 1, Append(term, char), quoted)

RECURSIVE ShellParseFrom(_, _, _, _)
\* the tokens from position i on: a token is an exclude term exactly when
\* its first character is an unescaped, unquoted '-', which is removed; an
\* empty term is not emitted
ShellParseFrom(text, i, include_terms, exclude_terms) ==
    LET start == SkipSpaces(text, i)
    IN IF start > Len(text)
       THEN [include_terms |-> include_terms, exclude_terms |-> exclude_terms]
       ELSE LET is_exclude == text[start] = "-"
                token == ShellTerm(text, IF is_exclude THEN start + 1 ELSE start,
                                   <<>>, FALSE)
            IN IF token.term = <<>>
               THEN ShellParseFrom(text, token.i, include_terms, exclude_terms)
               ELSE IF is_exclude
               THEN ShellParseFrom(text, token.i, include_terms,
                                   Append(exclude_terms, token.term))
               ELSE ShellParseFrom(text, token.i, Append(include_terms, token.term),
                                   exclude_terms)

\* C23: on every input string over letters, space, '-', '"' and backslash
\* parse_search_terms terminates, emits no empty term, and returns the
\* include and exclude terms of the shell-style rules: a token is an
\* exclude term exactly when its first character is an unescaped, unquoted
\* '-'; a backslash makes the next character a literal part of the term;
\* double quotes are removed and whitespace between them stays in the term.
C23_ShellStyleTerms ==
    (eng.op = "text" /\ eng.phase # "call") =>
        /\ \A k \in DOMAIN eng.include_terms : eng.include_terms[k] # <<>>
        /\ \A k \in DOMAIN eng.exclude_terms : eng.exclude_terms[k] # <<>>
        /\ eng.include_terms = ShellParseFrom(eng.search_term, 1, <<>>, <<>>).include_terms
        /\ eng.exclude_terms = ShellParseFrom(eng.search_term, 1, <<>>, <<>>).exclude_terms

\* the part of C23 that the parser keeps: no empty term is emitted, and on
\* strings without a double quote the terms are those of the shell-style
\* rules
C23_WithoutQuotes ==
    (eng.op = "text" /\ eng.phase # "call") =>
        /\ \A k \in DOMAIN eng.include_terms : eng.include_terms[k] # <<>>
        /\ \A k \in DOMAIN eng.exclude_terms : eng.exclude_terms[k] # <<>>
        /\ (\A k \in DOMAIN eng.search_term : eng.search_term[k] # "\"") =>
               /\ eng.include_terms
                      = ShellParseFrom(eng.search_term, 1, <<>>, <<>>).include_terms
               /\ eng.exclude_terms
                      = ShellParseFrom(eng.search_term, 1, <<>>, <<>>).exclude_terms

---------------------------------------------------------------------------
(* BaseEmbedClient._send_request: one call opens a connection, sends one   *)
(* request and assembles the reply from the frames it receives.  The       *)
(* frames are those a server can send: JSON objects with jsonrpc "2.0".    *)

MaxCalls == 2

MaxFrames == 3

\* the values of the "more" member of a frame; "absent": no such member
MoreValues == {"absent", "true", "false"}

\* a response frame: its id, whether it has an "error" and a "result"
\* member, the result, and the "more" member
Frames ==
    [id : 1..MaxCalls, has_error : BOOLEAN, has_result : BOOLEAN,
     result : {"r1", "r2"}, more : MoreValues]

NoReturn == [kind |-> "none", value |-> <<>>]

\* return {"error": ...}
ReturnError(message) == [kind |-> "error", value |-> <<message>>]

\* return response_data["result"]
ReturnPlain(result) == [kind |-> "result", value |-> <<result>>]

\* return results
ReturnResults(results) == [kind |-> "results", value |-> results]

ClientIdle ==
    [op |-> "client", pc |-> "idle", _request_id_counter |-> 0, id |-> 0,
     websocket |-> FALSE, closed |-> FALSE, frames |-> <<>>, results |-> <<>>,
     ret |-> NoReturn]

InitClient ==
    /\ pc = [c \in Conns |-> "done"]
    /\ cur = [c \in Conns |-> NoRequest]
    /\ pending = [c \in Conns |-> <<>>]
    /\ out = [c \in Conns |-> <<>>]
    /\ inbox = [c \in Conns |-> <<>>]
    /\ handled = [c \in Conns |-> <<>>]
    /\ calls = {}
    /\ nsent = 0
    /\ listening = FALSE
    /\ init_completed = TRUE
    /\ vs = VsIdle
    /\ daemon = DaemonServing
    /\ eng = ClientIdle

ClientFrame == <<pc, cur, pending, out, inbox, handled, calls, nsent, listening,
                 init_completed, vs, daemon>>

\* _send_request is called: websocket = None
SendRequestCall ==
    /\ eng.op = "client"
    /\ eng.pc \in {"idle", "returned"}
    /\ eng._request_id_counter < MaxCalls
    /\ eng' = [eng EXCEPT !.pc = "connecting", !.websocket = FALSE, !.closed = FALSE,
                          !.frames = <<>>, !.results = <<>>, !.ret = NoReturn]
    /\ UNCHANGED ClientFrame

\* websockets.connect succeeds; id = _get_next_request_id(); the request is sent
ConnectAndSend ==
    /\ eng.op = "client"
    /\ eng.pc = "connecting"
    /\ eng' = [eng EXCEPT !.pc = "reading", !.websocket = TRUE,
                          !._request_id_counter = eng._request_id_counter + 1,
                          !.id = eng._request_id_counter + 1]
    /\ UNCHANGED ClientFrame

\* websockets.connect times out or is refused: the except clauses return an
\* error, and the finally clause finds websocket = None
ConnectFails ==
    /\ eng.op = "client"
    /\ eng.pc = "connecting"
    /\ \E message \in {"timeout", "not running"} :
          eng' = [eng EXCEPT !.pc = "returned", !.ret = ReturnError(message)]
    /\ UNCHANGED ClientFrame

StopsOnMissingMoreNever(results) == FALSE

\* if more is None: if results: return {"error": ...}
StopsOnMissingMore(results) == results # <<>>

\* one pass of the while loop on a received frame: the value returned, or
\* NoReturn with the new results when the loop goes on
OnFrame(id, results, frame) ==
    IF frame.id # id THEN [ret |-> ReturnError("bad id"), results |-> results]
    ELSE IF frame.has_error THEN [ret |-> ReturnError("error.message"), results |-> results]
    ELSE IF ~frame.has_result
    THEN [ret |-> ReturnError("Invalid JSON-RPC response"), results |-> results]
    ELSE IF frame.more = "absent"
    THEN IF StopsOnMissingMore(results)
         THEN [ret |-> ReturnError("no more field"), results |-> results]
         ELSE [ret |-> ReturnPlain(frame.result), results |-> results]
    ELSE LET appended == Append(results, frame.result)
         IN IF frame.more = "false"
            THEN [ret |-> ReturnResults(appended), results |-> appended]
            ELSE [ret |-> NoReturn, results |-> appended]

\* response = await websocket.recv() and the body of the loop
ClientRecv ==
    /\ eng.op = "client"
    /\ eng.pc = "reading"
    /\ Len(eng.frames) < MaxFrames
    /\ \E frame \in Frames :
          LET step == OnFrame(eng.id, eng.results, frame)
          IN eng' = [eng EXCEPT !.frames = Append(eng.frames, frame),
                                !.results = step.results,
                                !.ret = step.ret,
                                !.pc = IF step.ret = NoReturn THEN "reading" ELSE "closing"]
    /\ UNCHANGED ClientFrame

\* websocket.recv() raises because the server closed the connection:
\* except Exception returns an error
ClientRecvFails ==
    /\ eng.op = "client"
    /\ eng.pc = "reading"
    /\ eng' = [eng EXCEPT !.pc = "closing", !.ret = ReturnError("connection closed")]
    /\ UNCHANGED ClientFrame

\* finally: if websocket: await websocket.close()
ClientClose ==
    /\ eng.op = "client"
    /\ eng.pc = "closing"
    /\ eng' = [eng EXCEPT !.pc = "returned", !.closed = TRUE]
    /\ UNCHANGED ClientFrame

NextClient ==
    \/ SendRequestCall
    \/ ConnectAndSend
    \/ ConnectFails
    \/ ClientRecv
    \/ ClientRecvFails
    \/ ClientClose

SpecClient == InitClient /\ [][NextClient]_vars

\* the frame continues a chunked reply of the request
IsChunk(frame, id) ==
    frame.id = id /\ ~frame.has_error /\ frame.has_result /\ frame.more = "true"

\* C24: the reply assembly of the client.  Every frame before the last one
\* read is a chunk with more = true, so the client reads no frame after the
\* one that decides the call; a last frame with another id, or with neither
\* result nor error, returns an error; a first frame without more is
\* returned as the plain result; a frame without more after a chunk returns
\* an error; a frame with more = false returns the results of all frames in
\* receipt order; and a call that returned on an open connection closed it.
C24_ReplyAssembly ==
    (eng.op = "client" /\ eng.frames # <<>>) =>
        LET n == Len(eng.frames)
            last == eng.frames[n]
            decided == eng.ret # NoReturn
        IN /\ \A k \in 1..(n - 1) : IsChunk(eng.frames[k], eng.id)
           /\ eng.pc = "reading" =>
                  (~decided /\ IsChunk(last, eng.id)
                     /\ eng.results = [k \in 1..n |-> eng.frames[k].result])
           /\ (eng.pc \in {"closing", "returned"} /\ eng.ret # ReturnError("connection closed")) =>
                  /\ decided
                  /\ ~IsChunk(last, eng.id)
                  /\ (last.id # eng.id \/ (~last.has_result /\ ~last.has_error)) =>
                         eng.ret.kind = "error"
                  /\ (last.id = eng.id /\ last.has_result /\ ~last.has_error) =>
                         /\ (last.more = "absent" /\ n = 1) => eng.ret = ReturnPlain(last.result)
                         /\ (last.more = "absent" /\ n > 1) => eng.ret.kind = "error"
                         /\ last.more = "false" =>
                                eng.ret = ReturnResults([k \in 1..n |-> eng.frames[k].result])
           /\ eng.pc = "returned" => (eng.websocket /\ eng.closed)

\* C24 witness: the second call of the process (request id 2) received two
\* chunks and then a frame with more = false, returned the three results in
\* receipt order and closed its connection.
C24_Witness ==
    /\ eng.op = "client"
    /\ eng.pc = "returned"
    /\ eng.id = 2
    /\ Len(eng.frames) = 3
    /\ eng.frames[3].more = "false"
    /\ eng.ret = ReturnResults(<<"r1", "r2", "r1">>)
    /\ eng.closed

---------------------------------------------------------------------------
(* The setters of UserFilterSettings and DateFilterSettings, applied in    *)
(* any order to settings that start empty.  A date string is kept as a     *)
(* number, the order of the numbers being the order of the strings.        *)

MaxThreshold == 3

MaxDate == 3

SettingsFrame == <<pc, cur, pending, out, inbox, handled, calls, nsent, listening,
                   init_completed, vs, daemon>>

InitSettings ==
    /\ pc = [c \in Conns |-> "done"]
    /\ cur = [c \in Conns |-> NoRequest]
    /\ pending = [c \in Conns |-> <<>>]
    /\ out = [c \in Conns |-> <<>>]
    /\ inbox = [c \in Conns |-> <<>>]
    /\ handled = [c \in Conns |-> <<>>]
    /\ calls = {}
    /\ nsent = 0
    /\ listening = FALSE
    /\ init_completed = TRUE
    /\ vs = VsIdle
    /\ daemon = DaemonServing
    /\ eng = [op |-> "settings", last |-> "__init__", user_filter |-> NoUserFilter,
              date_filter |-> NoDateFilter]

\* the operation named last replaces the user filter
SetUserFilter(last, f) ==
    /\ eng.op = "settings"
    /\ eng' = [eng EXCEPT !.last = last, !.user_filter = f]
    /\ UNCHANGED SettingsFrame

\* the operation named last replaces the date filter
SetDateFilter(last, f) ==
    /\ eng.op = "settings"
    /\ eng' = [eng EXCEPT !.last = last, !.date_filter = f]
    /\ UNCHANGED SettingsFrame

KeepsOtherAlways(low, high) == TRUE

\* if min_posts < max_posts / if from_date < to_date: the other limit stays
KeepsOther(low, high) == low < high

set_none == SetUserFilter("set_none", NoUserFilter)

set_includes ==
    \E users \in UserLists :
        SetUserFilter("set_includes", UserFilter(TRUE, users, FALSE, {}, FALSE, 0, FALSE, 0))

set_excludes ==
    \E users \in UserLists :
        SetUserFilter("set_excludes", UserFilter(FALSE, {}, TRUE, users, FALSE, 0, FALSE, 0))

set_threshold_min ==
    \E min_posts \in 1..MaxThreshold :
        LET f == eng.user_filter
            keeps == f.has_threshold_max /\ KeepsOther(min_posts, f.threshold_max)
        IN SetUserFilter("set_threshold_min",
                         UserFilter(FALSE, {}, FALSE, {}, TRUE, min_posts,
                                    keeps, IF keeps THEN f.threshold_max ELSE 0))

set_threshold_max ==
    \E max_posts \in 1..MaxThreshold :
        LET f == eng.user_filter
            keeps == f.has_threshold_min /\ KeepsOther(f.threshold_min, max_posts)
        IN SetUserFilter("set_threshold_max",
                         UserFilter(FALSE, {}, FALSE, {}, keeps,
                                    IF keeps THEN f.threshold_min ELSE 0, TRUE, max_posts))

clear_includes ==
    SetUserFilter("clear_includes",
                  [eng.user_filter EXCEPT !.has_includes = FALSE, !.includes = {}])

clear_excludes ==
    SetUserFilter("clear_excludes",
                  [eng.user_filter EXCEPT !.has_excludes = FALSE, !.excludes = {}])

clear_threshold_min ==
    SetUserFilter("clear_threshold_min",
                  [eng.user_filter EXCEPT !.has_threshold_min = FALSE, !.threshold_min = 0])

clear_threshold_max ==
    SetUserFilter("clear_threshold_max",
                  [eng.user_filter EXCEPT !.has_threshold_max = FALSE, !.threshold_max = 0])

set_all == SetDateFilter("set_all", NoDateFilter)

set_from ==
    \E from_date \in 1..MaxDate :
        LET f == eng.date_filter
            keeps == f.has_to /\ KeepsOther(from_date, f.to)
        IN SetDateFilter("set_from",
                         DateFilter(TRUE, from_date, keeps, IF keeps THEN f.to ELSE 0))

set_to ==
    \E to_date \in 1..MaxDate :
        LET f == eng.date_filter
            keeps == f.has_from /\ KeepsOther(f.from, to_date)
        IN SetDateFilter("set_to",
                         DateFilter(keeps, IF keeps THEN f.from ELSE 0, TRUE, to_date))

clear_from ==
    SetDateFilter("clear_from", [eng.date_filter EXCEPT !.has_from = FALSE, !.from = 0])

clear_to ==
    SetDateFilter("clear_to", [eng.date_filter EXCEPT !.has_to = FALSE, !.to = 0])

NextSettings ==
    \/ set_none
    \/ set_includes
    \/ set_excludes
    \/ set_threshold_min
    \/ set_threshold_max
    \/ clear_includes
    \/ clear_excludes
    \/ clear_threshold_min
    \/ clear_threshold_max
    \/ set_all
    \/ set_from
    \/ set_to
    \/ clear_from
    \/ clear_to

SpecSettings == InitSettings /\ [][NextSettings]_vars

\* C29: starting from empty settings, after any sequence of operations of
\* UserFilterSettings the filter never holds includes and excludes
\* together and holds threshold_min < threshold_max whenever it holds both;
\* after any sequence of operations of DateFilterSettings, from < to
\* whenever both are set.
C29_FiltersWellFormed ==
    eng.op = "settings" =>
        /\ ~(eng.user_filter.has_includes /\ eng.user_filter.has_excludes)
        /\ (eng.user_filter.has_threshold_min /\ eng.user_filter.has_threshold_max) =>
               eng.user_filter.threshold_min < eng.user_filter.threshold_max
        /\ (eng.date_filter.has_from /\ eng.date_filter.has_to) =>
               eng.date_filter.from < eng.date_filter.to

\* C29 witness: set_threshold_max has just run on a filter that held a
\* threshold_min, both thresholds are held, and the date filter holds both
\* of its limits as well.
C29_Witness ==
    /\ eng.op = "settings"
    /\ eng.last = "set_threshold_max"
    /\ eng.user_filter.has_threshold_min
    /\ eng.user_filter.has_threshold_max
    /\ eng.date_filter.has_from
    /\ eng.date_filter.has_to

\* C30: the author list and the thresholds are independent parts of the
\* user filter: set_threshold_min and set_threshold_max leave an includes
\* or excludes list as it was, and set_includes and set_excludes leave
\* threshold_min and threshold_max as they were.
C30_ListAndThresholdsIndependent ==
    [][eng.op = "settings" =>
         LET before == eng.user_filter
             after == eng'.user_filter
         IN /\ eng'.last \in {"set_threshold_min", "set_threshold_max"} =>
                   /\ after.has_includes = before.has_includes
                   /\ after.includes = before.includes
                   /\ after.has_excludes = before.has_excludes
                   /\ after.excludes = before.excludes
            /\ eng'.last \in {"set_includes", "set_excludes"} =>
                   /\ after.has_threshold_min = before.has_threshold_min
                   /\ after.threshold_min = before.threshold_min
                   /\ after.has_threshold_max = before.has_threshold_max
                   /\ after.threshold_max = before.threshold_max]_vars

\* what the setters do keep: no reachable filter holds an author list
\* together with a threshold
C30_NeverListWithThreshold ==
    eng.op = "settings" =>
        ~((eng.user_filter.has_includes \/ eng.user_filter.has_excludes)
            /\ (eng.user_filter.has_threshold_min \/ eng.user_filter.has_threshold_max))

---------------------------------------------------------------------------
(* Part 1, continued: every request is answered *)

\* the frame ends the reply to a request: an error, a plain result, or a
\* chunk with more = false
Terminates(f) == f.kind = "error" \/ f.more \in {Absent, "false"}

\* C28: every message read on a connection that stays open is answered by
\* at least one frame carrying its id that ends the reply (a result, an
\* error, or the chunk with more = false), once the iteration of
\* handle_client that read it has run to its end; a request whose handler
\* returns a streaming reply with zero chunks is no exception.
C28_EveryRequestAnswered ==
    \A c \in Conns :
        \A k \in DOMAIN handled[c] :
            (pc[c] \in {"recv", "send", "stop"} /\ Complete(c, k)) =>
                \E i \in DOMAIN out[c] :
                    /\ out[c][i].req = handled[c][k].msg.id
                    /\ out[c][i].id = handled[c][k].msg.id
                    /\ Terminates(out[c][i])

\* the same for the requests whose handler does not return an empty
\* streaming reply
C28_AnsweredUnlessEmptyStream ==
    \A c \in Conns :
        \A k \in DOMAIN handled[c] :
            (/\ pc[c] \in {"recv", "send", "stop"}
             /\ Complete(c, k)
             /\ handled[c][k].outcome # Streaming(0)) =>
                \E i \in DOMAIN out[c] :
                    /\ out[c][i].req = handled[c][k].msg.id
                    /\ out[c][i].id = handled[c][k].msg.id
                    /\ Terminates(out[c][i])

---------------------------------------------------------------------------
(* The `start` command: main of embed_server.py / twilog_server.py,        *)
(* start_daemon, the FrontendServer of the front process, and the daemon   *)
(* process it spawns, all on the one service port.  The operating system   *)
(* lets one process at a time listen on the port.  Several start commands  *)
(* can be given; the daemon spawned by command s is daemon s.              *)

NumStarts == 2

Starts == 1..NumStarts

\* what goes wrong in a daemon: metadata (main of twilog_server.py fails on
\* meta.json), init (init_model raises)
DaemonFaults(cls) ==
    IF cls = "TwilogServer" THEN {"none", "metadata", "init"} ELSE {"none", "init"}

FrontOf(s) == <<"front", s>>

DaemonOf(s) == <<"daemon", s>>

NoFront == [pc |-> "idle", has_server |-> FALSE, found_bound |-> FALSE, event |-> "none"]

NoDaemon == [pc |-> "none", fault |-> "none", slept |-> FALSE]

StartFrame == <<pc, cur, pending, out, inbox, handled, calls, nsent, listening,
                init_completed, vs, daemon>>

InitStart ==
    /\ pc = [c \in Conns |-> "unconnected"]
    /\ cur = [c \in Conns |-> NoRequest]
    /\ pending = [c \in Conns |-> <<>>]
    /\ out = [c \in Conns |-> <<>>]
    /\ inbox = [c \in Conns |-> <<>>]
    /\ handled = [c \in Conns |-> <<>>]
    /\ calls = {}
    /\ nsent = 0
    /\ listening = FALSE
    /\ init_completed = FALSE
    /\ vs = VsIdle
    /\ daemon = DaemonServing
    /\ \E cls \in {"EmbedServer", "TwilogServer"} :
          eng = [op |-> "start", cls |-> cls, port |-> {},
                 front |-> [s \in Starts |-> NoFront],
                 dmn |-> [s \in Starts |-> NoDaemon]]

\* the fronts listening on the port
ListeningFronts(port) == {s \in Starts : FrontOf(s) \in port}

\* a daemon is listening on the port
DaemonListening(port) == \E s \in Starts : DaemonOf(s) \in port

\* main, command "start": twilog_server.py asks for the status first,
\* embed_server.py calls start_daemon at once
StartCommand(s) ==
    /\ eng.op = "start"
    /\ eng.front[s].pc = "idle"
    /\ eng' = [eng EXCEPT !.front[s].pc =
                  IF eng.cls = "TwilogServer" THEN "status" ELSE "bind"]
    /\ UNCHANGED StartFrame

\* check_server_status: the connection is refused (None), a daemon answers
\* (the command ends), or a front process accepts and never answers
CheckStatus(s) ==
    /\ eng.op = "start"
    /\ eng.front[s].pc = "status"
    /\ eng' = [eng EXCEPT !.front[s].pc =
                  IF eng.port = {} THEN "bind"
                  ELSE IF DaemonListening(eng.port) THEN "terminated"
                  ELSE "status_wait"]
    /\ UNCHANGED StartFrame

\* check_server_status waits in recv on a connection to a front process;
\* when that front closes its server the recv raises and None is returned
StatusWaitEnds(s) ==
    /\ eng.op = "start"
    /\ eng.front[s].pc = "status_wait"
    /\ ListeningFronts(eng.port) = {}
    /\ eng' = [eng EXCEPT !.front[s].pc = "bind"]
    /\ UNCHANGED StartFrame

\* start_daemon: frontend_server = await websockets.serve(...) binds the port
BindFront(s) ==
    /\ eng.op = "start"
    /\ eng.front[s].pc = "bind"
    /\ eng.port = {}
    /\ eng' = [eng EXCEPT !.port = {FrontOf(s)},
                          !.front[s].pc = "spawn",
                          !.front[s].has_server = TRUE]
    /\ UNCHANGED StartFrame

\* websockets.serve raises OSError because the port is bound.  When the text
\* of the error contains "Address already in use" the except clause prints
\* and start_daemon goes on to subprocess.Popen; otherwise it re-raises.
\* The text is that of the event loop, not of this repository.
BindFrontFails(s) ==
    /\ eng.op = "start"
    /\ eng.front[s].pc = "bind"
    /\ eng.port # {}
    /\ \E text_matches \in BOOLEAN :
          eng' = [eng EXCEPT !.front[s].found_bound = TRUE,
                             !.front[s].pc = IF text_matches THEN "spawn" ELSE "crashed"]
    /\ UNCHANGED StartFrame

\* proc = subprocess.Popen(daemon_args, ...); then the tasks are created:
\* frontend_server.serve_forever() raises UnboundLocalError when the bind
\* had failed
Spawn(s) ==
    /\ eng.op = "start"
    /\ eng.front[s].pc = "spawn"
    /\ \E fault \in DaemonFaults(eng.cls) :
          eng' = [eng EXCEPT !.dmn[s] = [pc |-> "main", fault |-> fault, slept |-> FALSE],
                             !.front[s].pc =
                                 IF eng.front[s].has_server THEN "waiting" ELSE "crashed"]
    /\ UNCHANGED StartFrame

\* main, command "_daemon": twilog_server.py reads meta.json; on an error it
\* prints and returns (or dies), and nothing is sent to the front process
SpawnedMain(s) ==
    /\ eng.op = "start"
    /\ eng.dmn[s].pc = "main"
    /\ eng' = [eng EXCEPT !.dmn[s].pc =
                  IF eng.dmn[s].fault = "metadata" THEN "exited" ELSE "init_model"]
    /\ UNCHANGED StartFrame

\* FrontendServer.notification_handler of every front listening on the port
\* receives the frame of the given type and sets its event
Delivered(front, port, type) ==
    [s \in Starts |->
        IF s \in ListeningFronts(port) /\ front[s].event = "none"
        THEN [front[s] EXCEPT !.event = type]
        ELSE front[s]]

\* start_server: init_model raises; notify_frontend_error connects to the
\* port and sends init_error (a failed connection is swallowed); return
SpawnedInitFails(s) ==
    /\ eng.op = "start"
    /\ eng.dmn[s].pc = "init_model"
    /\ eng.dmn[s].fault = "init"
    /\ eng' = [eng EXCEPT !.dmn[s].pc = "exited",
                          !.front = Delivered(eng.front, eng.port, "init_error")]
    /\ UNCHANGED StartFrame

\* start_server: init_model returns; notify_frontend_completion connects to
\* the port, sends init_completed, waits for the ack, closes and sleeps 3
\* seconds; when the ack does not arrive, or nobody listens, the exception
\* is swallowed and the sleep is skipped
SpawnedNotify(s) ==
    /\ eng.op = "start"
    /\ eng.dmn[s].pc = "init_model"
    /\ eng.dmn[s].fault # "init"
    /\ \E ack_lost \in BOOLEAN :
          eng' = [eng EXCEPT !.dmn[s].pc = "start_server",
                             !.dmn[s].slept = eng.port # {} /\ ~ack_lost,
                             !.front = Delivered(eng.front, eng.port, "init_completed")]
    /\ UNCHANGED StartFrame

\* wait_for_init_complete returns or raises: one of the events is set
FrontWakes(s) ==
    /\ eng.op = "start"
    /\ eng.front[s].pc = "waiting"
    /\ eng.front[s].event # "none"
    /\ eng' = [eng EXCEPT !.front[s].pc = "closing"]
    /\ UNCHANGED StartFrame

\* frontend_server.close(); await frontend_server.wait_closed(); the front
\* process then checks the status once and ends
FrontCloses(s) ==
    /\ eng.op = "start"
    /\ eng.front[s].pc = "closing"
    /\ eng' = [eng EXCEPT !.port = eng.port \ {FrontOf(s)},
                          !.front[s].pc = "terminated"]
    /\ UNCHANGED StartFrame

PortFreeAlways(port) == TRUE

\* the operating system binds a listener only to a port nobody listens on
PortFree(port) == port = {}

\* _start_server: websockets.serve(self.handle_client, HOST, PORT) binds
SpawnedBinds(s) ==
    /\ eng.op = "start"
    /\ eng.dmn[s].pc = "start_server"
    /\ PortFree(eng.port)
    /\ eng' = [eng EXCEPT !.port = eng.port \cup {DaemonOf(s)},
                          !.dmn[s].pc = "serving"]
    /\ UNCHANGED StartFrame

\* _start_server: websockets.serve raises OSError, which only the event loop
\* catches: the daemon dies
SpawnedBindFails(s) ==
    /\ eng.op = "start"
    /\ eng.dmn[s].pc = "start_server"
    /\ ~PortFree(eng.port)
    /\ eng' = [eng EXCEPT !.dmn[s].pc = "crashed"]
    /\ UNCHANGED StartFrame

NextStart ==
    \E s \in Starts :
        \/ StartCommand(s)
        \/ CheckStatus(s)
        \/ StatusWaitEnds(s)
        \/ BindFront(s)
        \/ BindFrontFails(s)
        \/ Spawn(s)
        \/ SpawnedMain(s)
        \/ SpawnedInitFails(s)
        \/ SpawnedNotify(s)
        \/ FrontWakes(s)
        \/ FrontCloses(s)
        \/ SpawnedBinds(s)
        \/ SpawnedBindFails(s)

SpecStart == InitStart /\ [][NextStart]_vars

\* every process that can take a step eventually takes one
FairStart ==
    \A s \in Starts :
        /\ WF_vars(StartCommand(s))
        /\ WF_vars(CheckStatus(s))
        /\ WF_vars(StatusWaitEnds(s))
        /\ WF_vars(BindFront(s))
        /\ WF_vars(BindFrontFails(s))
        /\ WF_vars(Spawn(s))
        /\ WF_vars(SpawnedMain(s))
        /\ WF_vars(SpawnedInitFails(s))
        /\ WF_vars(SpawnedNotify(s))
        /\ WF_vars(FrontWakes(s))
        /\ WF_vars(FrontCloses(s))
        /\ WF_vars(SpawnedBinds(s))
        /\ WF_vars(SpawnedBindFails(s))

SpecStartFair == InitStart /\ [][NextStart]_vars /\ FairStart

Alive(d) == d.pc \in {"main", "init_model", "start_server", "serving"}

\* C26: at most one daemon is launched for the service port: no two
\* spawned daemons are alive together, and a start command that found the
\* port bound has spawned no daemon.
C26_AtMostOneDaemon ==
    eng.op = "start" =>
        /\ Cardinality({s \in Starts : Alive(eng.dmn[s])}) <= 1
        /\ \A s \in Starts : eng.front[s].found_bound => eng.dmn[s].pc = "none"

\* what does hold: at most one daemon ever listens on the port
C26_AtMostOneListens ==
    eng.op = "start" => Cardinality({s \in Starts : DaemonOf(s) \in eng.port}) <= 1

\* C27: after start has launched the daemon, the front process eventually
\* stops waiting: it receives init_completed or init_error, closes its
\* listener and terminates.
C27_FrontStopsWaiting ==
    \A s \in Starts :
        (eng.op = "start" /\ eng.front[s].pc = "waiting")
            ~> (eng.front[s].pc = "terminated" /\ eng.front[s].event # "none")

\* the cases of C27 that do end: the daemon got as far as init_model
C27_NotifiedFrontEnds ==
    \A s \in Starts :
        (eng.op = "start" /\ eng.front[s].pc = "waiting" /\ eng.front[s].event # "none")
            ~> (eng.front[s].pc = "terminated")

====
